---------------------------- MODULE Spec2Model ----------------------------
(***************************************************************************)
(* A model of rust-dsm: module resolution, the two-pass dependency graph   *)
(* builder, the workspace linker, module-level aggregation, Tarjan's cycle *)
(* detector and the metrics engine.                                        *)
(*                                                                         *)
(* Representation.  A qualified id "crate::a::Foo" is the sequence of its  *)
(* segments <<"crate","a","Foo">>; `x.startsWith(p + "::")` and            *)
(* `x.endsWith("::" + n)` become tests on the first and last segments.  A  *)
(* JavaScript Map is a sequence of entries in insertion order (Map.set on  *)
(* an existing key keeps the key's position), a JavaScript Set a sequence  *)
(* without repetition.  null is the empty sequence.  A source file is the  *)
(* list of the top-level nodes of its syntax tree; every node carries its  *)
(* tree-sitter node type and its child nodes in `body`.  A ratio is the    *)
(* pair [num, den] of its numerator and denominator.                       *)
(***************************************************************************)
EXTENDS Integers, Sequences, FiniteSets, TLC

VARIABLES
    mode,        \* the analysed project: "workspace" is built by buildWorkspaceGraph,
                 \* every other one by buildDependencyGraph
    frags,       \* the optional parts of the analysed sources that are present
    filterConfig,\* the FilterConfig the module resolver is given
    crates,      \* the CrateDefinitions the module resolver returned
    parsed,      \* the parseFile calls of the run: <<crate directory, file>>
    pc,          \* the pipeline's position
    crateIdx,    \* index of the crate whose DependencyGraphBuilder is running
    builder,     \* DependencyGraphBuilder: nodes, edgeMap, adjacencyList, reverseAdjacencyList
    ws,          \* WorkspaceGraphBuilder: nodes, edgeMap, adjacencyList, reverseAdjacencyList
    pending,     \* the addEdge calls pass 2 (or the workspace linker) has still to make
    graph,       \* the DependencyGraph returned by the build
    cycles,      \* detectCycles(graph)
    moduleGraph, \* aggregateToModuleLevel(graph)
    moduleCycles,\* detectModuleLevelCycles(graph)
    metrics      \* calculateMetrics(graph, crate, cycles)

vars == <<mode, frags, filterConfig, crates, parsed, pc, crateIdx, builder, ws, pending,
          graph, cycles, moduleGraph, moduleCycles, metrics>>

(***************************************************************************)
(* Bounds of the model.                                                    *)
(***************************************************************************)
\* how many optional fragments one analysed source tree holds
MaxFragments == 3

(***************************************************************************)
(* Generic helpers.                                                        *)
(***************************************************************************)
Last(s) == s[Len(s)]

Range(s) == {s[i] : i \in 1..Len(s)}

Contains(s, x) == \E i \in 1..Len(s) : s[i] = x

\* Set.add: append unless present
SetAdd(s, x) == IF Contains(s, x) THEN s ELSE Append(s, x)

\* a loop over s that threads an accumulator; the accumulator of an iteration is
\* evaluated before the next iteration starts
RECURSIVE FoldLeft(_, _, _)
FoldLeft(Op(_, _), acc, s) ==
    IF s = <<>> THEN acc
    ELSE LET next == Op(acc, Head(s)) IN
         IF next = next THEN FoldLeft(Op, next, Tail(s)) ELSE next

RECURSIVE FlatMap(_, _)
FlatMap(Op(_), s) ==
    IF s = <<>> THEN <<>> ELSE Op(Head(s)) \o FlatMap(Op, Tail(s))

\* id.startsWith(p + "::")
StartsWithSeg(id, p) == Len(id) > 1 /\ id[1] = p

\* id.endsWith("::" + name), name a path of one or more segments
EndsWithPath(id, name) ==
    /\ Len(name) > 0
    /\ Len(id) > Len(name)
    /\ SubSeq(id, Len(id) - Len(name) + 1, Len(id)) = name

NoId == <<>>

(***************************************************************************)
(* Syntax trees.  Constructors of the nodes the extractor looks at.  A     *)
(* type node is given by the TypeReference extractTypeReference returns    *)
(* for it: `amp` says that the name starts with "&" (a reference_type),    *)
(* `name` holds the segments of the rest of the name.                      *)
(***************************************************************************)
Ty(n, line) == [amp |-> FALSE, name |-> <<n>>, typeParameters |-> <<>>, line |-> line]

Gen(n, args, line) == [amp |-> FALSE, name |-> <<n>>, typeParameters |-> args, line |-> line]

RefTy(t) == [t EXCEPT !.amp = TRUE]

Param(t) == [isSelf |-> FALSE, typeRef |-> t]

SelfParam == [isSelf |-> TRUE, typeRef |-> Ty("Self", 0)]

StructItem(n, vis, fields, line) ==
    [type |-> "struct_item", name |-> n, visibility |-> vis, generics |-> <<>>,
     fields |-> fields, line |-> line, body |-> <<>>]

EnumItem(n, vis, variants, line) ==
    [type |-> "enum_item", name |-> n, visibility |-> vis, generics |-> <<>>,
     variants |-> variants, line |-> line, body |-> <<>>]

TypeItem(n, vis, line) ==
    [type |-> "type_item", name |-> n, visibility |-> vis, line |-> line, body |-> <<>>]

\* calls: the function texts of the call_expressions of the body; methodCalls:
\* the field identifiers of its method_call_expressions
FnItem(n, vis, params, ret, calls, methodCalls, line) ==
    [type |-> "function_item", name |-> n, visibility |-> vis, generics |-> <<>>,
     params |-> params, returnType |-> ret, calls |-> calls,
     methodCalls |-> methodCalls, line |-> line, body |-> <<>>]

FnSig(n, params, ret, line) ==
    [type |-> "function_signature_item", name |-> n, visibility |-> "private",
     generics |-> <<>>, params |-> params, returnType |-> ret, calls |-> <<>>,
     methodCalls |-> <<>>, line |-> line, body |-> <<>>]

TraitItem(n, vis, supertraits, members, line) ==
    [type |-> "trait_item", name |-> n, visibility |-> vis, generics |-> <<>>,
     supertraits |-> supertraits, line |-> line, body |-> members]

\* trait: <<>> (an inherent impl) or <<t>>
ImplItem(trait, selfType, members, line) ==
    [type |-> "impl_item", traitRef |-> trait, selfType |-> selfType,
     line |-> line, body |-> members]

UseDecl(path, items, isGlob, alias, line) ==
    [type |-> "use_declaration", path |-> path, items |-> items, isGlob |-> isGlob,
     alias |-> alias, line |-> line, body |-> <<>>]

UseItem(n, alias) == [name |-> n, alias |-> alias]

\* `mod n;`
ModDecl(n, line) ==
    [type |-> "mod_item", name |-> n, hasBody |-> FALSE, isCfgTest |-> FALSE,
     line |-> line, body |-> <<>>]

\* `mod n { members }`; cfgTest: hasCfgTestAttribute of the node
InlineMod(n, cfgTest, members, line) ==
    [type |-> "mod_item", name |-> n, hasBody |-> TRUE, isCfgTest |-> cfgTest,
     line |-> line, body |-> members]

(***************************************************************************)
(* RustParser.findAllByType: every node of the given type in the subtrees  *)
(* of `roots`, in pre-order.                                               *)
(***************************************************************************)
RECURSIVE findAllByType(_, _)
findAllByType(roots, type) ==
    IF roots = <<>> THEN <<>>
    ELSE LET h == Head(roots) IN
         (IF h.type = type THEN <<h>> ELSE <<>>)
            \o findAllByType(h.body, type)
            \o findAllByType(Tail(roots), type)

(***************************************************************************)
(* SymbolExtractor.                                                        *)
(***************************************************************************)
extractCallsites(node) ==
    FlatMap(LAMBDA c : <<[functionPath |-> c, isMethodCall |-> FALSE, line |-> node.line]>>,
            node.calls)
    \o FlatMap(LAMBDA c : <<[functionPath |-> <<c>>, isMethodCall |-> TRUE, line |-> node.line]>>,
               node.methodCalls)

FunctionDefOf(node, vis) ==
    [name |-> node.name, visibility |-> vis, generics |-> node.generics,
     params |-> node.params, returnType |-> node.returnType,
     bodyCallsites |-> extractCallsites(node), line |-> node.line]

extractStructs(root) ==
    FlatMap(LAMBDA n : <<[name |-> n.name, visibility |-> n.visibility,
                          generics |-> n.generics, fields |-> n.fields, line |-> n.line]>>,
            findAllByType(root, "struct_item"))

extractEnums(root) ==
    FlatMap(LAMBDA n : <<[name |-> n.name, visibility |-> n.visibility,
                          generics |-> n.generics, variants |-> n.variants, line |-> n.line]>>,
            findAllByType(root, "enum_item"))

extractFunctions(root) ==
    FlatMap(LAMBDA n : <<FunctionDefOf(n, n.visibility)>>,
            findAllByType(root, "function_item"))

extractTraits(root) ==
    FlatMap(LAMBDA n :
              <<[name |-> n.name, visibility |-> n.visibility, generics |-> n.generics,
                 supertraits |-> n.supertraits,
                 methods |-> FlatMap(LAMBDA m : <<FunctionDefOf(m, "public")>>,
                                     findAllByType(n.body, "function_signature_item")
                                       \o findAllByType(n.body, "function_item")),
                 line |-> n.line]>>,
            findAllByType(root, "trait_item"))

extractImpls(root) ==
    FlatMap(LAMBDA n :
              <<[traitRef |-> n.traitRef, selfType |-> n.selfType,
                 methods |-> FlatMap(LAMBDA m : <<FunctionDefOf(m, m.visibility)>>,
                                     findAllByType(n.body, "function_item")),
                 line |-> n.line]>>,
            findAllByType(root, "impl_item"))

extractUses(root) ==
    FlatMap(LAMBDA n : <<[path |-> n.path, alias |-> n.alias, isGlob |-> n.isGlob,
                          items |-> n.items, line |-> n.line]>>,
            findAllByType(root, "use_declaration"))

extractTypeAliases(root) ==
    FlatMap(LAMBDA n : <<[name |-> n.name, visibility |-> n.visibility, line |-> n.line]>>,
            findAllByType(root, "type_item"))

extractModDeclarations(root) ==
    FlatMap(LAMBDA n : IF ~n.hasBody THEN <<n.name>> ELSE <<>>,
            findAllByType(root, "mod_item"))

extractInlineModules(root) ==
    FlatMap(LAMBDA n : IF n.hasBody
                       THEN <<[name |-> n.name, node |-> n.body, isCfgTest |-> n.isCfgTest]>>
                       ELSE <<>>,
            findAllByType(root, "mod_item"))

extractAll(root) ==
    [structs |-> extractStructs(root), enums |-> extractEnums(root),
     traits |-> extractTraits(root), functions |-> extractFunctions(root),
     impls |-> extractImpls(root), uses |-> extractUses(root),
     typeAliases |-> extractTypeAliases(root),
     modDeclarations |-> extractModDeclarations(root)]

(***************************************************************************)
(* ModuleResolver.  A file path relative to the crate directory is         *)
(* [dir, base], standing for dir/base.rs.  A project is the basename of    *)
(* its directory, its manifest (<<>> when Cargo.toml is missing, else the  *)
(* CargoToml parseToml returns: the package name, the [lib] path and the   *)
(* [[bin]] entries, each <<>> when absent) and the map of its source       *)
(* files.  A glob pattern of the filter configuration is given by the set  *)
(* of relative paths minimatch accepts for it.                             *)
(***************************************************************************)
File(dir, base) == [dir |-> dir, base |-> base]

\* basenames of the model's files that match /_tests?\.rs$/
TestFileBases == {"utils_test", "utils_tests"}

createDefaultFilterConfig ==
    [excludePatterns |-> <<>>, includePatterns |-> <<>>, excludeTestFiles |-> FALSE,
     excludeTestsDirectory |-> FALSE, excludeCfgTest |-> FALSE]

createNoTestsFilterConfig ==
    [excludePatterns |-> <<>>, includePatterns |-> <<>>, excludeTestFiles |-> TRUE,
     excludeTestsDirectory |-> TRUE, excludeCfgTest |-> TRUE]

\* a plausible slip: a file that matches an include pattern is kept, whatever else
\* holds of it
shouldExcludeIncludeWins(cfg, filePath) ==
    IF \E i \in 1..Len(cfg.includePatterns) : filePath \in cfg.includePatterns[i]
    THEN FALSE
    ELSE \/ cfg.excludeTestFiles /\ filePath.base \in TestFileBases
         \/ cfg.excludeTestsDirectory /\ filePath.dir # <<>> /\ filePath.dir[1] = "tests"
         \/ \E i \in 1..Len(cfg.excludePatterns) : filePath \in cfg.excludePatterns[i]
         \/ Len(cfg.includePatterns) > 0

\* a plausible slip: the two test flags are not looked at
shouldExcludePatternsOnly(cfg, filePath) ==
    \/ \E i \in 1..Len(cfg.excludePatterns) : filePath \in cfg.excludePatterns[i]
    \/ /\ Len(cfg.includePatterns) > 0
       /\ ~\E i \in 1..Len(cfg.includePatterns) : filePath \in cfg.includePatterns[i]

shouldExclude(cfg, filePath) ==
    \/ cfg.excludeTestFiles /\ filePath.base \in TestFileBases
    \/ cfg.excludeTestsDirectory /\ filePath.dir # <<>> /\ filePath.dir[1] = "tests"
    \/ \E i \in 1..Len(cfg.excludePatterns) : filePath \in cfg.excludePatterns[i]
    \/ /\ Len(cfg.includePatterns) > 0
       /\ ~\E i \in 1..Len(cfg.includePatterns) : filePath \in cfg.includePatterns[i]

\* <<>> for null, <<path>> otherwise
findSubmodule(files, cfg, parentFile, modName) ==
    LET parentDir == parentFile.dir
        parentBasename == parentFile.base
        candidates ==
            IF parentBasename \in {"lib", "main", "mod"}
            THEN <<File(parentDir, modName), File(Append(parentDir, modName), "mod")>>
            ELSE <<File(Append(parentDir, parentBasename), modName),
                   File(parentDir \o <<parentBasename, modName>>, "mod")>>
        existing == SelectSeq(candidates, LAMBDA c : c \in DOMAIN files)
    IN  IF existing = <<>> THEN <<>>
        ELSE IF shouldExclude(cfg, existing[1]) THEN <<>>
        ELSE <<existing[1]>>

\* the module built for one inline `mod name { ... }` of the file
inlineModuleOf(m, filePath, modulePath) ==
    LET inlineSymbols == extractAll(m.node) IN
    [name |-> m.name, path |-> Append(modulePath, m.name), filePath |-> filePath,
     visibility |-> "private",
     structs |-> inlineSymbols.structs, enums |-> inlineSymbols.enums,
     traits |-> inlineSymbols.traits, functions |-> inlineSymbols.functions,
     impls |-> inlineSymbols.impls, uses |-> inlineSymbols.uses,
     typeAliases |-> inlineSymbols.typeAliases, submodules |-> <<>>]

\* the content of a file readFileSync cannot read
Unreadable == <<[type |-> "EACCES", body |-> <<>>]>>

\* RustParser.parseFile: readFileSync throws on an unreadable file
parseFile(files, filePath) ==
    [ok |-> files[filePath] # Unreadable, root |-> files[filePath]]

\* `this` holds the module cache and the log of the parseFile calls.  The result
\* is the module, `this` after the call and the error thrown ("" when none).
\* inProgress holds the files of the calls on the stack: a call for one of them
\* finds nothing in the cache, parses the file again and recurses as the call on
\* the stack did, until the stack overflows with a RangeError.
RECURSIVE resolveModule(_, _, _, _, _, _, _)
resolveModule(files, cfg, this, inProgress, filePath, name, modulePath) ==
    IF filePath \in DOMAIN this.moduleCache
    THEN [module |-> this.moduleCache[filePath], this |-> this, error |-> ""]
    ELSE
      LET this1 == [this EXCEPT !.parsed = Append(@, filePath)]
          \* the submodule resolved by the recursive call joins the submodules
          submodule(acc, r) ==
              IF r.error # "" THEN [acc EXCEPT !.this = r.this, !.error = r.error]
              ELSE [subs |-> Append(acc.subs, r.module), this |-> r.this, error |-> ""]
          declare(acc, modName) ==
              LET submodPath == findSubmodule(files, cfg, filePath, modName) IN
              IF acc.error # "" \/ submodPath = <<>> THEN acc
              ELSE submodule(acc, resolveModule(files, cfg, acc.this,
                                                inProgress \cup {filePath}, submodPath[1],
                                                modName, Append(modulePath, modName)))
          moduleOf(symbols, submodules) ==
              [name |-> name, path |-> modulePath, filePath |-> filePath,
               visibility |-> "public",
               structs |-> symbols.structs, enums |-> symbols.enums,
               traits |-> symbols.traits, functions |-> symbols.functions,
               impls |-> symbols.impls, uses |-> symbols.uses,
               typeAliases |-> symbols.typeAliases,
               submodules |-> submodules]
          cached(declared, module) ==
              IF declared.error # ""
              THEN [module |-> <<>>, this |-> declared.this, error |-> declared.error]
              ELSE [module |-> module,
                    this |-> [declared.this EXCEPT
                                !.moduleCache = (filePath :> module) @@ @],
                    error |-> ""]
          resolved(root, symbols) ==
              LET inline == FlatMap(LAMBDA m : IF m.isCfgTest /\ cfg.excludeCfgTest THEN <<>>
                                               ELSE <<inlineModuleOf(m, filePath,
                                                                     modulePath)>>,
                                    extractInlineModules(root))
                  declaredBy(declared) ==
                      cached(declared, moduleOf(symbols, declared.subs \o inline))
              IN  declaredBy(FoldLeft(declare,
                                      [subs |-> <<>>, this |-> this1, error |-> ""],
                                      symbols.modDeclarations))
          parsedAs(parseResult) ==
              IF ~parseResult.ok THEN [module |-> <<>>, this |-> this1, error |-> "EACCES"]
              ELSE IF filePath \in inProgress
              THEN [module |-> <<>>, this |-> this1, error |-> "RangeError"]
              ELSE resolved(parseResult.root, extractAll(parseResult.root))
      IN  parsedAs(parseFile(files, filePath))

\* the CargoToml of a manifest with no section
EmptyCargoToml == [package |-> <<>>, libPath |-> <<>>, bin |-> <<>>]

parseCargoToml(project) ==
    IF project.manifest = <<>> THEN EmptyCargoToml ELSE project.manifest[1]

findLibPath(project, cargo) ==
    IF cargo.libPath # <<>> /\ cargo.libPath[1] \in DOMAIN project.files
    THEN <<cargo.libPath[1]>>
    ELSE IF File(<<"src">>, "lib") \in DOMAIN project.files
    THEN <<File(<<"src">>, "lib")>>
    ELSE <<>>

\* a plausible slip: src/main.rs is looked for before the binary path override
findMainPathDefaultFirst(project, cargo) ==
    IF File(<<"src">>, "main") \in DOMAIN project.files
    THEN <<File(<<"src">>, "main")>>
    ELSE IF /\ Len(cargo.bin) > 0
            /\ cargo.bin[1].path # <<>>
            /\ cargo.bin[1].path[1] \in DOMAIN project.files
    THEN <<cargo.bin[1].path[1]>>
    ELSE <<>>

findMainPath(project, cargo) ==
    IF /\ Len(cargo.bin) > 0
       /\ cargo.bin[1].path # <<>>
       /\ cargo.bin[1].path[1] \in DOMAIN project.files
    THEN <<cargo.bin[1].path[1]>>
    ELSE IF File(<<"src">>, "main") \in DOMAIN project.files
    THEN <<File(<<"src">>, "main")>>
    ELSE <<>>

\* ok is FALSE when resolve() throws; parsed is the log of the parseFile calls
resolve(project, cfg) ==
    LET cargoToml == parseCargoToml(project)
        crateName == IF cargoToml.package # <<>> THEN cargoToml.package[1]
                     ELSE project.dir
        libPath == findLibPath(project, cargoToml)
        entryPoint == IF libPath # <<>> THEN libPath
                      ELSE findMainPath(project, cargoToml)
        resolved(r) ==
            IF r.error # "" THEN [ok |-> FALSE, parsed |-> r.this.parsed]
            ELSE [ok |-> TRUE, parsed |-> r.this.parsed,
                  crate |-> [name |-> crateName, rootModule |-> r.module,
                             isLibrary |-> libPath # <<>>]]
    IN  IF entryPoint = <<>> THEN [ok |-> FALSE, parsed |-> <<>>]
        ELSE resolved(resolveModule(project.files, cfg,
                                    [moduleCache |-> <<>>, parsed |-> <<>>], {},
                                    entryPoint[1], "crate", <<"crate">>))

(***************************************************************************)
(* UseResolver.  The symbol index holds the keys of its four maps in       *)
(* insertion order.  A null alias is "".                                   *)
(***************************************************************************)
ResolverPrimitives ==
    {"bool", "char", "str", "u8", "u16", "u32", "u64", "u128", "usize",
     "i8", "i16", "i32", "i64", "i128", "isize", "f32", "f64"}

RECURSIVE indexModule(_, _)
indexModule(module, index) ==
    LET own(names) == FlatMap(LAMBDA d : <<Append(module.path, d.name)>>, names)
        addAll(m, keys) == FoldLeft(SetAdd, m, keys)
        i1 == [index EXCEPT !.modules = SetAdd(@, module.path)]
        i2 == [i1 EXCEPT !.types = addAll(@, own(module.structs) \o own(module.enums)),
                         !.traits = addAll(@, own(module.traits)),
                         !.functions = addAll(@, own(module.functions))]
        i3 == [i2 EXCEPT !.types = addAll(@, own(module.typeAliases))]
    IN  FoldLeft(LAMBDA acc, sub : indexModule(sub, acc), i3, module.submodules)

buildSymbolIndex(rootModule) ==
    indexModule(rootModule,
                [types |-> <<>>, functions |-> <<>>, traits |-> <<>>, modules |-> <<>>])

resolveBasePath(pathSegments, currentModulePath) ==
    IF Len(pathSegments) = 0 THEN currentModulePath
    ELSE LET first == pathSegments[1] IN
         IF first = "crate" THEN pathSegments
         ELSE IF first = "self" THEN currentModulePath \o Tail(pathSegments)
         ELSE IF first = "super"
              THEN (IF Len(currentModulePath) <= 1 THEN <<"">>
                    ELSE SubSeq(currentModulePath, 1, Len(currentModulePath) - 1))
                   \o Tail(pathSegments)
         ELSE IF first \in {"std", "core", "alloc"} THEN pathSegments
         ELSE <<"crate">> \o pathSegments

resolveGlobImport(index, basePath) ==
    LET direct(fullPath) ==
            /\ Len(fullPath) = Len(basePath) + 1
            /\ SubSeq(fullPath, 1, Len(basePath)) = basePath
        pick(m, kind) ==
            FlatMap(LAMBDA fullPath :
                      IF direct(fullPath)
                      THEN <<[localName |-> Last(fullPath), resolvedPath |-> fullPath,
                              kind |-> kind]>>
                      ELSE <<>>, m)
    IN  pick(index.types, "type") \o pick(index.functions, "function")
          \o pick(index.traits, "trait")

determineSymbolKind(index, path) ==
    IF Contains(index.types, path) THEN "type"
    ELSE IF Contains(index.functions, path) THEN "function"
    ELSE IF Contains(index.traits, path) THEN "trait"
    ELSE IF Contains(index.modules, path) THEN "module"
    ELSE "unknown"

resolveUseDeclaration(index, use, currentModulePath) ==
    LET basePath == resolveBasePath(use.path, currentModulePath) IN
    IF use.isGlob THEN resolveGlobImport(index, basePath)
    ELSE IF Len(use.items) > 0
    THEN FlatMap(LAMBDA item :
                   <<[localName |-> IF item.alias # "" THEN item.alias ELSE item.name,
                      resolvedPath |-> Append(basePath, item.name),
                      kind |-> determineSymbolKind(index, Append(basePath, item.name))]>>,
                 use.items)
    ELSE <<[localName |-> IF use.alias # "" THEN use.alias ELSE Last(use.path),
            resolvedPath |-> basePath,
            kind |-> determineSymbolKind(index, basePath)]>>

\* the entries of the module's alias map, in the order they are set
resolveUsesForModule(index, module) ==
    FlatMap(LAMBDA use : resolveUseDeclaration(index, use, module.path), module.uses)

\* Map.get on the alias map: the last entry set for the name
AliasGet(aliases, n) ==
    aliases[CHOOSE i \in 1..Len(aliases) :
              /\ aliases[i].localName = n
              /\ \A j \in (i + 1)..Len(aliases) : aliases[j].localName # n].resolvedPath

AliasHas(aliases, n) == \E i \in 1..Len(aliases) : aliases[i].localName = n

\* <<>> for null, <<path>> otherwise
resolveTypeReference(index, aliases, typeRef, modulePath) ==
    LET name == typeRef.name
        known(q) == Contains(index.types, q) \/ Contains(index.traits, q)
        fullPath == IF name[1] = "crate" THEN name ELSE <<"crate">> \o name
    IN  IF ~typeRef.amp /\ Len(name) = 1 /\ name[1] \in ResolverPrimitives
        THEN << <<"std", name[1]>> >>
        ELSE IF typeRef.amp THEN <<>>
        ELSE IF Len(name) = 1 /\ AliasHas(aliases, name[1])
        THEN <<AliasGet(aliases, name[1])>>
        ELSE IF known(modulePath \o name) THEN <<modulePath \o name>>
        ELSE IF known(<<"crate">> \o name) THEN << <<"crate">> \o name >>
        ELSE IF Len(name) > 1 /\ known(fullPath) THEN <<fullPath>>
        ELSE <<>>

(***************************************************************************)
(* DependencyGraphBuilder.  A builder is the record of its node map (a     *)
(* sequence of nodes in insertion order), its edge map (a sequence of      *)
(* edges in insertion order, keyed by from, to and depType) and its two    *)
(* adjacency maps (functions from node id to a sequence without            *)
(* repetition).  cratePrefix is "" outside workspace mode.                 *)
(***************************************************************************)
NewBuilder ==
    [nodes |-> <<>>, edgeMap |-> <<>>, adjacencyList |-> <<>>,
     reverseAdjacencyList |-> <<>>]

HasNode(nodes, id) == \E i \in 1..Len(nodes) : nodes[i].id = id

NodeIndex(nodes, id) == CHOOSE i \in 1..Len(nodes) : nodes[i].id = id

GetNode(nodes, id) == nodes[NodeIndex(nodes, id)]

NodeIds(nodes) == {nodes[i].id : i \in 1..Len(nodes)}

prefixId(cratePrefix, id) ==
    IF cratePrefix # "" /\ ~StartsWithSeg(id, cratePrefix)
    THEN <<cratePrefix>> \o id
    ELSE id

addNode(b, node) ==
    [b EXCEPT !.nodes = IF HasNode(@, node.id)
                        THEN [@ EXCEPT ![NodeIndex(@, node.id)] = node]
                        ELSE Append(@, node),
              !.adjacencyList = (node.id :> <<>>) @@ @,
              !.reverseAdjacencyList = (node.id :> <<>>) @@ @]

addChild(b, parentId, childId) ==
    IF HasNode(b.nodes, parentId)
       /\ ~Contains(GetNode(b.nodes, parentId).children, childId)
    THEN [b EXCEPT !.nodes[NodeIndex(b.nodes, parentId)].children = Append(@, childId)]
    ELSE b

\* <<>> for null, <<id>> otherwise
findTypeNodeId(b, cratePrefix, modulePath, typeName) ==
    LET localPath == prefixId(cratePrefix, modulePath \o typeName)
        cratePath == prefixId(cratePrefix, <<"crate">> \o typeName)
        found == SelectSeq(b.nodes, LAMBDA n : /\ n.kind \in {"struct", "enum", "trait"}
                                               /\ EndsWithPath(n.id, typeName))
    IN  IF HasNode(b.nodes, localPath) THEN <<localPath>>
        ELSE IF HasNode(b.nodes, cratePath) THEN <<cratePath>>
        ELSE IF found # <<>> THEN <<found[1].id>>
        ELSE <<>>

\* the text of a type name: "&" + name for a reference type matches no identifier
TypeNameSegs(typeRef) ==
    IF typeRef.amp THEN <<"&">> \o typeRef.name ELSE typeRef.name

RECURSIVE buildNodes(_, _, _, _)
buildNodes(b, cratePrefix, module, parentId) ==
    LET moduleId == prefixId(cratePrefix, module.path)
        prefixedParentId == IF parentId # NoId THEN prefixId(cratePrefix, parentId) ELSE NoId
        displayName == IF module.name = "crate" /\ cratePrefix # ""
                       THEN cratePrefix ELSE module.name
        b0 == addNode(b, [id |-> moduleId, name |-> displayName, path |-> module.path,
                          kind |-> "module", parentId |-> prefixedParentId,
                          filePath |-> module.filePath, line |-> 1, children |-> <<>>])
        decl(kind, acc, d) ==
              LET id == prefixId(cratePrefix, Append(module.path, d.name)) IN
              addChild(addNode(acc, [id |-> id, name |-> d.name,
                                     path |-> Append(module.path, d.name),
                                     kind |-> kind, parentId |-> moduleId,
                                     filePath |-> module.filePath, line |-> d.line,
                                     children |-> <<>>]),
                       moduleId, id)
        b1 == FoldLeft(LAMBDA acc, d : decl("struct", acc, d), b0, module.structs)
        b2 == FoldLeft(LAMBDA acc, d : decl("enum", acc, d), b1, module.enums)
        b3 == FoldLeft(LAMBDA acc, d : decl("trait", acc, d), b2, module.traits)
        b4 == FoldLeft(LAMBDA acc, d : decl("function", acc, d), b3, module.functions)
        implMethods(acc, impl) ==
            LET selfTypeId == findTypeNodeId(acc, cratePrefix, module.path,
                                             TypeNameSegs(impl.selfType))
                method(acc2, m) ==
                    LET methodId == Append(selfTypeId[1], m.name) IN
                    IF ~HasNode(acc2.nodes, methodId)
                    THEN addChild(addNode(acc2, [id |-> methodId, name |-> m.name,
                                                 path |-> methodId, kind |-> "function",
                                                 parentId |-> selfTypeId[1],
                                                 filePath |-> module.filePath,
                                                 line |-> m.line, children |-> <<>>]),
                                  selfTypeId[1], methodId)
                    ELSE acc2
            IN  IF selfTypeId # <<>> THEN FoldLeft(method, acc, impl.methods) ELSE acc
        b5 == FoldLeft(implMethods, b4, module.impls)
        sub(acc, submodule) ==
            addChild(buildNodes(acc, cratePrefix, submodule, module.path),
                     moduleId, prefixId(cratePrefix, submodule.path))
    IN  FoldLeft(sub, b5, module.submodules)

(***************************************************************************)
(* Pass 2.  The resolution of a reference reads the node map (complete     *)
(* after pass 1), the symbol index and the alias map of the current        *)
(* module, never the edges: process* return the addEdge calls they make,   *)
(* in order; the calls are then made one step at a time.  A context is     *)
(* [nodes, cratePrefix, index, aliases, currentModule].                    *)
(***************************************************************************)
BuilderPrimitives == ResolverPrimitives \cup {"()"}

StdTypes ==
    {"String", "Vec", "Option", "Result", "Box", "Rc", "Arc", "Cell", "RefCell",
     "Mutex", "RwLock", "HashMap", "HashSet", "BTreeMap", "BTreeSet", "VecDeque",
     "LinkedList", "BinaryHeap", "Cow", "PhantomData"}

isPrimitive(typeRef) ==
    \/ typeRef.amp
    \/ Len(typeRef.name) = 1 /\ typeRef.name[1] \in BuilderPrimitives

isStdType(typeRef) ==
    ~typeRef.amp /\ Len(typeRef.name) = 1 /\ typeRef.name[1] \in StdTypes

EdgeCall(fromId, toId, depType, file, line) ==
    [fromId |-> fromId, toId |-> toId, depType |-> depType,
     location |-> [file |-> file, line |-> line, column |-> 0]]

\* the first key of the node map that ends in "::" + name; <<>> when none does
SuffixMatch(nodes, name) ==
    LET found == SelectSeq(nodes, LAMBDA n : EndsWithPath(n.id, name)) IN
    IF found # <<>> THEN <<found[1].id>> ELSE <<>>

\* a plausible slip: the declaration of the current module is looked up before the
\* resolution of the use resolver
resolveTypeRefToNodeIdLocalFirst(c, typeRef) ==
    LET name == typeRef.name
        resolved == resolveTypeReference(c.index, c.aliases, typeRef, c.currentModule)
        localPath == prefixId(c.cratePrefix, c.currentModule \o name)
        cratePath == prefixId(c.cratePrefix, <<"crate">> \o name)
    IN  IF isPrimitive(typeRef) \/ isStdType(typeRef) THEN <<>>
        ELSE IF HasNode(c.nodes, localPath) THEN <<localPath>>
        ELSE IF resolved # <<>> /\ HasNode(c.nodes, prefixId(c.cratePrefix, resolved[1]))
        THEN <<prefixId(c.cratePrefix, resolved[1])>>
        ELSE IF HasNode(c.nodes, cratePath) THEN <<cratePath>>
        ELSE SuffixMatch(c.nodes, name)

\* <<>> for null, <<id>> otherwise
resolveTypeRefToNodeId(c, typeRef) ==
    LET name == typeRef.name
        resolved == resolveTypeReference(c.index, c.aliases, typeRef, c.currentModule)
        localPath == prefixId(c.cratePrefix, c.currentModule \o name)
        cratePath == prefixId(c.cratePrefix, <<"crate">> \o name)
    IN  IF isPrimitive(typeRef) \/ isStdType(typeRef) THEN <<>>
        ELSE IF resolved # <<>> /\ HasNode(c.nodes, prefixId(c.cratePrefix, resolved[1]))
        THEN <<prefixId(c.cratePrefix, resolved[1])>>
        ELSE IF HasNode(c.nodes, localPath) THEN <<localPath>>
        ELSE IF HasNode(c.nodes, cratePath) THEN <<cratePath>>
        ELSE SuffixMatch(c.nodes, name)

resolveToNodeId(c, path) ==
    LET normalizedPath ==
            IF ~StartsWithSeg(path, "crate") /\ ~StartsWithSeg(path, "std")
               /\ ~StartsWithSeg(path, "core")
            THEN <<"crate">> \o path ELSE path
        prefixedNormalized == prefixId(c.cratePrefix, normalizedPath)
        prefixedPath == prefixId(c.cratePrefix, path)
    IN  IF HasNode(c.nodes, prefixedNormalized) THEN <<prefixedNormalized>>
        ELSE IF HasNode(c.nodes, prefixedPath) THEN <<prefixedPath>>
        ELSE <<>>

resolveFunctionCall(c, callPath) ==
    LET localPath == prefixId(c.cratePrefix, c.currentModule \o callPath)
        cratePath == prefixId(c.cratePrefix, <<"crate">> \o callPath)
    IN  IF HasNode(c.nodes, localPath) THEN <<localPath>>
        ELSE IF HasNode(c.nodes, cratePath) THEN <<cratePath>>
        ELSE SuffixMatch(c.nodes, callPath)

RECURSIVE processTypeRef(_, _, _, _, _)
processTypeRef(c, fromId, typeRef, depType, filePath) ==
    LET toId == resolveTypeRefToNodeId(c, typeRef) IN
    (IF toId # <<>> /\ toId[1] # fromId
     THEN <<EdgeCall(fromId, toId[1], depType, filePath, typeRef.line)>>
     ELSE <<>>)
    \o FlatMap(LAMBDA param : processTypeRef(c, fromId, param, depType, filePath),
               typeRef.typeParameters)

processGenerics(c, fromId, generics, filePath) ==
    FlatMap(LAMBDA generic :
              FlatMap(LAMBDA bound : processTypeRef(c, fromId, bound, "trait_bound", filePath),
                      generic.bounds),
            generics)

\* a plausible slip: only the items of a use list are turned into edges
processUseListsOnly(c, module, use) ==
    LET fromId == prefixId(c.cratePrefix, module.path) IN
    FlatMap(LAMBDA item :
              LET toId == resolveToNodeId(c, Append(use.path, item.name)) IN
              IF toId # <<>>
              THEN <<EdgeCall(fromId, toId[1], "use_import", module.filePath, use.line)>>
              ELSE <<>>,
            use.items)

processUse(c, module, use) ==
    LET basePath == use.path
        fromId == prefixId(c.cratePrefix, module.path)
        emit(toId) == IF toId # <<>>
                      THEN <<EdgeCall(fromId, toId[1], "use_import", module.filePath, use.line)>>
                      ELSE <<>>
    IN  IF Len(use.items) > 0
        THEN FlatMap(LAMBDA item : emit(resolveToNodeId(c, Append(basePath, item.name))),
                     use.items)
        ELSE IF ~use.isGlob THEN emit(resolveToNodeId(c, basePath))
        ELSE <<>>

processStruct(c, module, struct) ==
    LET structId == prefixId(c.cratePrefix, Append(module.path, struct.name)) IN
    FlatMap(LAMBDA field : processTypeRef(c, structId, field, "field_type", module.filePath),
            struct.fields)
    \o processGenerics(c, structId, struct.generics, module.filePath)

processEnum(c, module, enumDef) ==
    LET enumId == prefixId(c.cratePrefix, Append(module.path, enumDef.name)) IN
    FlatMap(LAMBDA variant :
              FlatMap(LAMBDA field : processTypeRef(c, enumId, field, "field_type",
                                                    module.filePath),
                      variant),
            enumDef.variants)
    \o processGenerics(c, enumId, enumDef.generics, module.filePath)

processCalls(c, fnId, fn, filePath) ==
    FlatMap(LAMBDA callsite :
              LET targetId == resolveFunctionCall(c, callsite.functionPath) IN
              IF targetId # <<>>
              THEN <<EdgeCall(fnId, targetId[1],
                              IF callsite.isMethodCall THEN "method_call" ELSE "function_call",
                              filePath, callsite.line)>>
              ELSE <<>>,
            fn.bodyCallsites)

processFunction(c, module, fn, parentId) ==
    LET moduleId == prefixId(c.cratePrefix, module.path)
        fnId == IF parentId = moduleId
                THEN prefixId(c.cratePrefix, Append(module.path, fn.name))
                ELSE Append(parentId, fn.name)
    IN  FlatMap(LAMBDA param :
                  IF ~param.isSelf
                  THEN processTypeRef(c, fnId, param.typeRef, "parameter_type", module.filePath)
                  ELSE <<>>,
                fn.params)
        \o (IF fn.returnType # <<>>
            THEN processTypeRef(c, fnId, fn.returnType[1], "return_type", module.filePath)
            ELSE <<>>)
        \o processGenerics(c, fnId, fn.generics, module.filePath)
        \o processCalls(c, fnId, fn, module.filePath)

processTrait(c, module, trait) ==
    LET traitId == prefixId(c.cratePrefix, Append(module.path, trait.name)) IN
    FlatMap(LAMBDA supertrait : processTypeRef(c, traitId, supertrait, "trait_bound",
                                               module.filePath),
            trait.supertraits)
    \o FlatMap(LAMBDA method : processFunction(c, module, method, traitId), trait.methods)

\* a plausible slip: every impl block is handled as an inherent one
processImplInherent(c, module, impl) ==
    LET selfTypeId == resolveTypeRefToNodeId(c, impl.selfType)
    IN  IF selfTypeId # <<>>
        THEN FlatMap(LAMBDA method : processFunction(c, module, method, selfTypeId[1]),
                     impl.methods)
        ELSE <<>>

processImpl(c, module, impl) ==
    LET selfTypeId == resolveTypeRefToNodeId(c, impl.selfType)
        traitId == IF impl.traitRef # <<>>
                   THEN resolveTypeRefToNodeId(c, impl.traitRef[1]) ELSE <<>>
    IN  (IF impl.traitRef # <<>> /\ selfTypeId # <<>> /\ traitId # <<>>
         THEN <<EdgeCall(selfTypeId[1], traitId[1], "trait_impl", module.filePath, impl.line)>>
         ELSE <<>>)
        \o (IF selfTypeId # <<>>
            THEN FlatMap(LAMBDA method : processFunction(c, module, method, selfTypeId[1]),
                         impl.methods)
            ELSE <<>>)

RECURSIVE processModule(_, _)
processModule(c0, module) ==
    LET c == [c0 EXCEPT !.currentModule = module.path,
                        !.aliases = resolveUsesForModule(c0.index, module)]
        moduleId == prefixId(c.cratePrefix, module.path)
    IN  FlatMap(LAMBDA use : processUse(c, module, use), module.uses)
        \o FlatMap(LAMBDA struct : processStruct(c, module, struct), module.structs)
        \o FlatMap(LAMBDA enumDef : processEnum(c, module, enumDef), module.enums)
        \o FlatMap(LAMBDA trait : processTrait(c, module, trait), module.traits)
        \o FlatMap(LAMBDA fn : processFunction(c, module, fn, moduleId), module.functions)
        \o FlatMap(LAMBDA impl : processImpl(c, module, impl), module.impls)
        \o FlatMap(LAMBDA submodule : processModule(c, submodule), module.submodules)

\* a plausible slip: the key of an edge is never found in the edge map
HasEdgeNever(edgeMap, fromId, toId, depType) == FALSE

\* edgeMap.has(edgeKey)
HasEdge(edgeMap, fromId, toId, depType) ==
    \E i \in 1..Len(edgeMap) :
        edgeMap[i].from = fromId /\ edgeMap[i].to = toId /\ edgeMap[i].depType = depType

EdgeIndex(edgeMap, fromId, toId, depType) ==
    CHOOSE i \in 1..Len(edgeMap) :
        edgeMap[i].from = fromId /\ edgeMap[i].to = toId /\ edgeMap[i].depType = depType

\* a plausible slip: the adjacency maps are not updated
AdjAddNone(adj, k, v) == adj

\* the adjacency update `map.get(k)?.add(v)`
AdjAdd(adj, k, v) ==
    IF k \in DOMAIN adj THEN [adj EXCEPT ![k] = SetAdd(@, v)] ELSE adj

\* DependencyGraphBuilder.addEdge and WorkspaceGraphBuilder.addEdge (the same code)
addEdge(b, call) ==
    IF ~HasNode(b.nodes, call.fromId) \/ ~HasNode(b.nodes, call.toId) THEN b
    ELSE
      LET present == HasEdge(b.edgeMap, call.fromId, call.toId, call.depType)
          i == EdgeIndex(b.edgeMap, call.fromId, call.toId, call.depType)
          edge == b.edgeMap[i]
      IN  [b EXCEPT
             !.edgeMap =
                 IF present
                 THEN [b.edgeMap EXCEPT ![i] =
                          [edge EXCEPT !.count = edge.count + 1,
                                       !.locations = Append(edge.locations, call.location)]]
                 ELSE Append(b.edgeMap, [from |-> call.fromId, to |-> call.toId,
                                         depType |-> call.depType, count |-> 1,
                                         locations |-> <<call.location>>]),
             !.adjacencyList = AdjAdd(b.adjacencyList, call.fromId, call.toId),
             !.reverseAdjacencyList = AdjAdd(b.reverseAdjacencyList, call.toId, call.fromId)]

GraphOf(b) ==
    [nodes |-> b.nodes, edges |-> b.edgeMap, adjacencyList |-> b.adjacencyList,
     reverseAdjacencyList |-> b.reverseAdjacencyList]

(***************************************************************************)
(* WorkspaceGraphBuilder.  The builder of the workspace has the fields of  *)
(* a crate's builder.  Crate names hold no hyphen, so that the normalized  *)
(* name of a crate is its name.  Like pass 2, the linker reads the node    *)
(* map only: its methods return the addEdge calls they make.               *)
(***************************************************************************)
\* the two merge loops of build() for the graph of one crate
mergeCrate(w, crateGraph) ==
    LET withNodes ==
            FoldLeft(LAMBDA acc, node : addNode(acc, node), w, crateGraph.nodes)
        mergeEdge(acc, edge) ==
            [acc EXCEPT
               !.edgeMap = IF HasEdge(acc.edgeMap, edge.from, edge.to, edge.depType)
                           THEN [acc.edgeMap EXCEPT
                                   ![EdgeIndex(acc.edgeMap, edge.from, edge.to, edge.depType)]
                                       = edge]
                           ELSE Append(acc.edgeMap, edge),
               !.adjacencyList = AdjAdd(acc.adjacencyList, edge.from, edge.to),
               !.reverseAdjacencyList = AdjAdd(acc.reverseAdjacencyList, edge.to, edge.from)]
    IN  FoldLeft(mergeEdge, withNodes, crateGraph.edges)

\* typeNameToNodeId.get(name) || []
typeNameToNodeId(nodes, name) ==
    FlatMap(LAMBDA n : IF n.name = name THEN <<n.id>> ELSE <<>>, nodes)

\* candidates.find(id => id.startsWith(actualCrateName + "::")); <<>> for undefined
FindInCrate(candidates, actualCrateName) ==
    LET found == SelectSeq(candidates, LAMBDA id : StartsWithSeg(id, actualCrateName)) IN
    IF found # <<>> THEN <<found[1]>> ELSE <<>>

\* a plausible slip: the lookup of an imported name never succeeds
ImportHasNever(imports, n) == FALSE

ImportHas(imports, n) == \E i \in 1..Len(imports) : imports[i].name = n

\* Map.get on the imports map: the last target set for the name
ImportGet(imports, n) ==
    imports[CHOOSE i \in 1..Len(imports) :
              /\ imports[i].name = n
              /\ \A j \in (i + 1)..Len(imports) : imports[j].name # n].target

\* returns the imports map and the addEdge calls made, after those of acc
RECURSIVE collectCrateImports(_, _, _, _, _)
collectCrateImports(nodes, crateNames, module, currentCrate, acc) ==
    LET moduleId == <<currentCrate>> \o module.path
        import(a, use, itemName, lookupName) ==
            LET targetNode == FindInCrate(typeNameToNodeId(nodes, lookupName), use.path[1]) IN
            IF targetNode = <<>> THEN a
            ELSE [imports |-> Append(a.imports, [name |-> itemName, target |-> targetNode[1]]),
                  calls |-> a.calls \o
                            (IF HasNode(nodes, moduleId)
                             THEN <<EdgeCall(moduleId, targetNode[1], "use_import",
                                             module.filePath, use.line)>>
                             ELSE <<>>)]
        perUse(a, use) ==
            IF use.path[1] \in {"crate", "self", "super", "std", "core", "alloc"} THEN a
            ELSE IF use.path[1] \notin crateNames THEN a
            ELSE IF Len(use.items) > 0
            THEN FoldLeft(LAMBDA a2, item :
                            import(a2, use, IF item.alias # "" THEN item.alias ELSE item.name,
                                   item.name),
                          a, use.items)
            ELSE IF ~use.isGlob /\ Len(use.path) > 1
            THEN import(a, use, Last(use.path), Last(use.path))
            ELSE a
        own == FoldLeft(perUse, acc, module.uses)
    IN  FoldLeft(LAMBDA a, submodule :
                   collectCrateImports(nodes, crateNames, submodule, currentCrate, a),
                 own, module.submodules)

RECURSIVE resolveExternalTypeRef(_, _, _, _, _, _)
resolveExternalTypeRef(nodes, fromId, typeRef, imports, currentCrate, filePath) ==
    IF isPrimitive(typeRef) \/ isStdType(typeRef) THEN <<>>
    ELSE
      (IF /\ Len(typeRef.name) = 1
          /\ ImportHas(imports, typeRef.name[1])
          /\ HasNode(nodes, fromId)
          /\ HasNode(nodes, ImportGet(imports, typeRef.name[1]))
          /\ ~StartsWithSeg(ImportGet(imports, typeRef.name[1]), currentCrate)
       THEN <<EdgeCall(fromId, ImportGet(imports, typeRef.name[1]), "field_type",
                       filePath, typeRef.line)>>
       ELSE <<>>)
      \o FlatMap(LAMBDA param :
                   resolveExternalTypeRef(nodes, fromId, param, imports, currentCrate, filePath),
                 typeRef.typeParameters)

\* <<>> for null, <<id>> otherwise
findNodeInCurrentCrate(nodes, crateName, typeName) ==
    LET found == SelectSeq(nodes, LAMBDA n : /\ StartsWithSeg(n.id, crateName)
                                             /\ EndsWithPath(n.id, typeName))
    IN  IF found # <<>> THEN <<found[1].id>> ELSE <<>>

RECURSIVE processModuleTypeRefs(_, _, _, _)
processModuleTypeRefs(nodes, module, currentCrate, imports) ==
    LET ext(fromId, typeRef) ==
            resolveExternalTypeRef(nodes, fromId, typeRef, imports, currentCrate,
                                   module.filePath)
        signature(fromId, fn) ==
            FlatMap(LAMBDA param : IF ~param.isSelf THEN ext(fromId, param.typeRef) ELSE <<>>,
                    fn.params)
            \o (IF fn.returnType # <<>> THEN ext(fromId, fn.returnType[1]) ELSE <<>>)
        declId(d) == <<currentCrate>> \o module.path \o <<d.name>>
        perImpl(impl) ==
            LET selfTypeId == findNodeInCurrentCrate(nodes, currentCrate,
                                                     TypeNameSegs(impl.selfType))
                traitName == TypeNameSegs(impl.traitRef[1])
            IN  (IF /\ selfTypeId # <<>>
                    /\ impl.traitRef # <<>>
                    /\ Len(traitName) = 1
                    /\ ImportHas(imports, traitName[1])
                    /\ HasNode(nodes, selfTypeId[1])
                 THEN <<EdgeCall(selfTypeId[1], ImportGet(imports, traitName[1]), "trait_impl",
                                 module.filePath, impl.line)>>
                 ELSE <<>>)
                \o (IF selfTypeId # <<>>
                    THEN FlatMap(LAMBDA method :
                                   signature(Append(selfTypeId[1], method.name), method),
                                 impl.methods)
                    ELSE <<>>)
    IN  FlatMap(LAMBDA struct :
                  FlatMap(LAMBDA field : ext(declId(struct), field), struct.fields),
                module.structs)
        \o FlatMap(LAMBDA enumDef :
                     FlatMap(LAMBDA variant :
                               FlatMap(LAMBDA field : ext(declId(enumDef), field), variant),
                             enumDef.variants),
                   module.enums)
        \o FlatMap(LAMBDA fn : signature(declId(fn), fn), module.functions)
        \o FlatMap(perImpl, module.impls)
        \o FlatMap(LAMBDA trait :
                     FlatMap(LAMBDA method : signature(declId(trait), method), trait.methods),
                   module.traits)
        \o FlatMap(LAMBDA submodule :
                     processModuleTypeRefs(nodes, submodule, currentCrate, imports),
                   module.submodules)

resolveInterCrateDependencies(nodes, crateList) ==
    LET crateNames == {crateList[i].name : i \in 1..Len(crateList)}
        collected(crate) ==
            collectCrateImports(nodes, crateNames, crate.rootModule, crate.name,
                                [imports |-> <<>>, calls |-> <<>>])
    IN  FlatMap(LAMBDA crate : collected(crate).calls, crateList)
        \o FlatMap(LAMBDA crate :
                     processModuleTypeRefs(nodes, crate.rootModule, crate.name,
                                           collected(crate).imports),
                   crateList)

(***************************************************************************)
(* Aggregation to module level: aggregateToModuleLevel of the graph        *)
(* builder's file and aggregateToModules of the cycle detector's file.     *)
(***************************************************************************)
\* getModulePath and findAncestorModule (the same loop): <<>> for null
\* a plausible slip: the parent is taken for the nearest module
getModulePathOfParent(nodeId, g) ==
    IF ~HasNode(g.nodes, nodeId) THEN <<>>
    ELSE LET current == GetNode(g.nodes, nodeId) IN
         IF current.parentId # NoId THEN <<current.parentId>> ELSE <<current.id>>

RECURSIVE getModulePath(_, _)
getModulePath(nodeId, g) ==
    IF ~HasNode(g.nodes, nodeId) THEN <<>>
    ELSE LET current == GetNode(g.nodes, nodeId) IN
         IF current.kind = "module" THEN <<current.id>>
         ELSE IF current.parentId # NoId THEN getModulePath(current.parentId, g)
         ELSE <<>>

findAncestorModule(nodeId, g) == getModulePath(nodeId, g)

HasModuleEdge(edgeMap, fromModule, toModule) ==
    \E i \in 1..Len(edgeMap) : edgeMap[i].from = fromModule /\ edgeMap[i].to = toModule

ModuleEdgeIndex(edgeMap, fromModule, toModule) ==
    CHOOSE i \in 1..Len(edgeMap) : edgeMap[i].from = fromModule /\ edgeMap[i].to = toModule

\* the adjacency maps built from the module nodes and the module edges
ModuleAdjacency(moduleNodes, moduleEdges) ==
    LET empty == FoldLeft(LAMBDA acc, n : (n.id :> <<>>) @@ acc, <<>>, moduleNodes) IN
    [adjacencyList |-> FoldLeft(LAMBDA acc, e : AdjAdd(acc, e.from, e.to), empty, moduleEdges),
     reverseAdjacencyList |->
         FoldLeft(LAMBDA acc, e : AdjAdd(acc, e.to, e.from), empty, moduleEdges)]

aggregateToModuleLevel(g) ==
    LET moduleNodes ==
            FlatMap(LAMBDA n : IF n.kind = "module" THEN <<[n EXCEPT !.children = <<>>]>>
                               ELSE <<>>,
                    g.nodes)
        step(edgeMap, edge) ==
            LET fromModule == getModulePath(edge.from, g)
                toModule == getModulePath(edge.to, g)
            IN  IF fromModule = <<>> \/ toModule = <<>> \/ fromModule = toModule THEN edgeMap
                ELSE IF HasModuleEdge(edgeMap, fromModule[1], toModule[1])
                THEN [edgeMap EXCEPT ![ModuleEdgeIndex(edgeMap, fromModule[1], toModule[1])] =
                         [@ EXCEPT !.count = @ + edge.count,
                                   !.locations = @ \o edge.locations]]
                ELSE Append(edgeMap, [from |-> fromModule[1], to |-> toModule[1],
                                      depType |-> edge.depType, count |-> edge.count,
                                      locations |-> edge.locations])
        moduleEdges == FoldLeft(step, <<>>, g.edges)
        adj == ModuleAdjacency(moduleNodes, moduleEdges)
    IN  [nodes |-> moduleNodes, edges |-> moduleEdges,
         adjacencyList |-> adj.adjacencyList,
         reverseAdjacencyList |-> adj.reverseAdjacencyList]

aggregateToModules(g) ==
    LET moduleNodes == SelectSeq(g.nodes, LAMBDA n : n.kind = "module")
        step(edgeMap, edge) ==
            LET fromModule == findAncestorModule(edge.from, g)
                toModule == findAncestorModule(edge.to, g)
            IN  IF fromModule = <<>> \/ toModule = <<>> \/ fromModule = toModule THEN edgeMap
                ELSE IF HasModuleEdge(edgeMap, fromModule[1], toModule[1])
                THEN [edgeMap EXCEPT ![ModuleEdgeIndex(edgeMap, fromModule[1], toModule[1])] =
                         [@ EXCEPT !.count = @ + edge.count]]
                ELSE Append(edgeMap, [from |-> fromModule[1], to |-> toModule[1],
                                      depType |-> edge.depType, count |-> edge.count,
                                      locations |-> edge.locations])
        moduleEdges == FoldLeft(step, <<>>, g.edges)
        adj == ModuleAdjacency(moduleNodes, moduleEdges)
    IN  [nodes |-> moduleNodes, edges |-> moduleEdges,
         adjacencyList |-> adj.adjacencyList,
         reverseAdjacencyList |-> adj.reverseAdjacencyList]

(***************************************************************************)
(* Cycle detection: TarjanSCC.  The detector's fields are the record       *)
(* [index, stack, onStack, indices, lowLinks, sccs]; indices and lowLinks  *)
(* are functions from the node ids visited so far.                         *)
(***************************************************************************)
NewTarjan ==
    [index |-> 0, stack |-> <<>>, onStack |-> {}, indices |-> <<>>, lowLinks |-> <<>>,
     sccs |-> <<>>]

MathMin(a, b) == IF a <= b THEN a ELSE b

Reverse(s) == [i \in 1..Len(s) |-> s[Len(s) + 1 - i]]

\* a plausible slip: the whole stack is taken as the component
popSccAll(t, nodeId) ==
    [t EXCEPT !.stack = <<>>, !.onStack = {}, !.sccs = Append(@, Reverse(t.stack))]

\* the do-while loop of strongConnect: pops the stack down to nodeId
popScc(t, nodeId) ==
    LET p == CHOOSE i \in 1..Len(t.stack) : t.stack[i] = nodeId
        scc == Reverse(SubSeq(t.stack, p, Len(t.stack)))
    IN  [t EXCEPT !.stack = SubSeq(t.stack, 1, p - 1),
                  !.onStack = @ \ Range(scc),
                  !.sccs = Append(@, scc)]

RECURSIVE strongConnect(_, _, _)
strongConnect(g, t, nodeId) ==
    LET entered == [t EXCEPT !.indices = (nodeId :> t.index) @@ @,
                             !.lowLinks = (nodeId :> t.index) @@ @,
                             !.index = @ + 1,
                             !.stack = Append(@, nodeId),
                             !.onStack = @ \cup {nodeId}]
        neighbors == IF nodeId \in DOMAIN g.adjacencyList
                     THEN g.adjacencyList[nodeId] ELSE <<>>
        visit(acc, neighbor) ==
            IF neighbor \notin DOMAIN acc.indices
            THEN LET r == strongConnect(g, acc, neighbor) IN
                 [r EXCEPT !.lowLinks[nodeId] = MathMin(@, r.lowLinks[neighbor])]
            ELSE IF neighbor \in acc.onStack
            THEN [acc EXCEPT !.lowLinks[nodeId] = MathMin(@, acc.indices[neighbor])]
            ELSE acc
        visited == FoldLeft(visit, entered, neighbors)
    IN  IF visited.lowLinks[nodeId] = visited.indices[nodeId]
        THEN popScc(visited, nodeId)
        ELSE visited

\* a plausible slip: every edge of the graph is listed in the cycle
buildCycleAllEdges(g, nodes) == [nodes |-> nodes, edges |-> g.edges]

buildCycle(g, nodes) ==
    [nodes |-> nodes,
     edges |-> SelectSeq(g.edges, LAMBDA edge : /\ edge.from \in Range(nodes)
                                                /\ edge.to \in Range(nodes))]

\* a plausible slip: every component is reported, whatever its size
findCyclesEveryComponent(g) ==
    LET t == FoldLeft(LAMBDA acc, n : IF n.id \notin DOMAIN acc.indices
                                      THEN strongConnect(g, acc, n.id) ELSE acc,
                      NewTarjan, g.nodes)
    IN  FlatMap(LAMBDA scc : <<buildCycle(g, scc)>>, t.sccs)

findCycles(g) ==
    LET t == FoldLeft(LAMBDA acc, n : IF n.id \notin DOMAIN acc.indices
                                      THEN strongConnect(g, acc, n.id) ELSE acc,
                      NewTarjan, g.nodes)
    IN  FlatMap(LAMBDA scc :
                  IF Len(scc) > 1 THEN <<buildCycle(g, scc)>>
                  ELSE IF /\ Len(scc) = 1
                          /\ scc[1] \in DOMAIN g.adjacencyList
                          /\ Contains(g.adjacencyList[scc[1]], scc[1])
                  THEN <<buildCycle(g, scc)>>
                  ELSE <<>>,
                t.sccs)

detectCycles(g) == findCycles(g)

detectModuleLevelCycles(g) == detectCycles(aggregateToModules(g))

\* a plausible slip: only the first cycle is looked at
getNodesInCyclesFirst(cycleList) ==
    IF cycleList = <<>> THEN {} ELSE Range(cycleList[1].nodes)

getNodesInCycles(cycleList) ==
    UNION {Range(cycleList[i].nodes) : i \in 1..Len(cycleList)}

\* <<>> for null, <<cycle>> otherwise
getCycleForNode(nodeId, cycleList) ==
    LET found == SelectSeq(cycleList, LAMBDA cycle : Contains(cycle.nodes, nodeId)) IN
    IF found # <<>> THEN <<found[1]>> ELSE <<>>

(***************************************************************************)
(* Metrics: MetricsCalculator.  A quotient is kept exact, as the pair      *)
(* [num, den] with den > 0; null is <<>>, a cycle id i is <<i>>, counted   *)
(* from 0 as the indexes of the cycles array are.  The line estimate,      *)
(* which reads the files, and the top-ten lists are left out of the        *)
(* report.                                                                 *)
(***************************************************************************)
Ratio(n, d) == [num |-> n, den |-> d]

Abs(x) == IF x < 0 THEN 0 - x ELSE x

\* a plausible slip: the node itself is counted
SizeOfPlusOne(adj, nodeId) == IF nodeId \in DOMAIN adj THEN Len(adj[nodeId]) + 1 ELSE 1

\* Map.get(nodeId)?.size ?? 0 on an adjacency map
SizeOf(adj, nodeId) == IF nodeId \in DOMAIN adj THEN Len(adj[nodeId]) ELSE 0

\* a plausible slip: a node without coupling counts as wholly unstable
InstabilityOfIsolatedOne(afferentCoupling, efferentCoupling) ==
    IF afferentCoupling + efferentCoupling = 0 THEN Ratio(1, 1)
    ELSE Ratio(efferentCoupling, afferentCoupling + efferentCoupling)

Instability(afferentCoupling, efferentCoupling) ==
    IF afferentCoupling + efferentCoupling = 0 THEN Ratio(0, 1)
    ELSE Ratio(efferentCoupling, afferentCoupling + efferentCoupling)

\* a plausible slip: the absolute value is forgotten
DistanceSigned(abstractness, instability) ==
    Ratio(abstractness.num * instability.den + instability.num * abstractness.den
            - abstractness.den * instability.den,
          abstractness.den * instability.den)

\* Math.abs(abstractness + instability - 1)
Distance(abstractness, instability) ==
    Ratio(Abs(abstractness.num * instability.den + instability.num * abstractness.den
                - abstractness.den * instability.den),
          abstractness.den * instability.den)

\* the last index set for the node by buildCycleMap; <<>> when none is
cycleMapGet(cycleList, nodeId) ==
    LET holding == {i \in 1..Len(cycleList) : Contains(cycleList[i].nodes, nodeId)} IN
    IF holding = {} THEN <<>>
    ELSE <<(CHOOSE i \in holding : \A j \in holding : j <= i) - 1>>

calculateFanIn(g, nodeId) ==
    FoldLeft(LAMBDA count, edge : IF edge.to = nodeId THEN count + edge.count ELSE count,
             0, g.edges)

calculateFanOut(g, nodeId) ==
    FoldLeft(LAMBDA count, edge : IF edge.from = nodeId THEN count + edge.count ELSE count,
             0, g.edges)

estimateComplexity(g, nodeId) ==
    IF ~HasNode(g.nodes, nodeId) THEN 0
    ELSE IF GetNode(g.nodes, nodeId).kind = "function" THEN 1 + calculateFanOut(g, nodeId)
    ELSE 1

calculateNodeMetrics(g, cycleList, nodeId) ==
    LET node == GetNode(g.nodes, nodeId)
        afferentCoupling == SizeOf(g.reverseAdjacencyList, nodeId)
        efferentCoupling == SizeOf(g.adjacencyList, nodeId)
        instability == Instability(afferentCoupling, efferentCoupling)
        abstractness == IF node.kind = "trait" THEN Ratio(1, 1) ELSE Ratio(0, 1)
    IN  [id |-> nodeId, name |-> node.name, path |-> node.path, kind |-> node.kind,
         afferentCoupling |-> afferentCoupling, efferentCoupling |-> efferentCoupling,
         instability |-> instability, abstractness |-> abstractness,
         distanceFromMainSequence |-> Distance(abstractness, instability),
         fanIn |-> calculateFanIn(g, nodeId), fanOut |-> calculateFanOut(g, nodeId),
         complexity |-> estimateComplexity(g, nodeId),
         inCycle |-> nodeId \in getNodesInCycles(cycleList),
         cycleId |-> cycleMapGet(cycleList, nodeId)]

\* <<>> for null, <<module>> otherwise
RECURSIVE findModule(_, _)
findModule(module, targetPath) ==
    IF module.path = targetPath THEN <<module>>
    ELSE LET found == FlatMap(LAMBDA submodule : findModule(submodule, targetPath),
                              module.submodules)
         IN  IF found # <<>> THEN <<found[1]>> ELSE <<>>

CountVisible(decls, vis) == Len(SelectSeq(decls, LAMBDA d : (d.visibility = "public") = vis))

calculateModuleMetrics(crate, moduleId, baseMetrics) ==
    LET module == findModule(crate.rootModule, moduleId)
        m == module[1]
        items == m.structs \o m.enums \o m.traits \o m.functions
        totalTypes == Len(m.structs) + Len(m.enums) + Len(m.typeAliases)
        totalTraits == Len(m.traits)
        abstractness == IF totalTypes + totalTraits = 0 THEN Ratio(0, 1)
                        ELSE Ratio(totalTraits, totalTypes + totalTraits)
        counts == IF module = <<>>
                  THEN [totalTypes |-> 0, totalTraits |-> 0, totalFunctions |-> 0,
                        publicItems |-> 0, privateItems |-> 0]
                  ELSE [totalTypes |-> totalTypes, totalTraits |-> totalTraits,
                        totalFunctions |-> Len(m.functions),
                        publicItems |-> CountVisible(items, TRUE),
                        privateItems |-> CountVisible(items, FALSE)]
        base == IF module = <<>> THEN baseMetrics
                ELSE [baseMetrics EXCEPT
                        !.abstractness = abstractness,
                        !.distanceFromMainSequence =
                            Distance(abstractness, baseMetrics.instability)]
    IN  [base |-> base, counts |-> counts]

\* the crate calculateMetrics is given: the crate itself, or the virtual crate the
\* driver makes of a workspace
MetricsCrate(m, crateList) ==
    IF m # "workspace" THEN crateList[1]
    ELSE [name |-> "workspace", isLibrary |-> FALSE,
          rootModule |->
              [name |-> "workspace", path |-> <<"workspace">>,
               filePath |-> File(<<>>, "workspace"), visibility |-> "public",
               structs |-> <<>>, enums |-> <<>>, traits |-> <<>>, functions |-> <<>>,
               impls |-> <<>>, uses |-> <<>>, typeAliases |-> <<>>,
               submodules |-> FlatMap(LAMBDA c : <<c.rootModule>>, crateList)]]

\* a + b on quotients
RatioAdd(a, b) == Ratio(a.num * b.den + b.num * a.den, a.den * b.den)

calculateCrateMetrics(crate, moduleMetrics, cycleList) ==
    LET moduleCount == Len(moduleMetrics)
        total(count(_)) == FoldLeft(LAMBDA acc, mm : acc + count(mm), 0, moduleMetrics)
        sum(value(_)) ==
            FoldLeft(LAMBDA acc, mm : RatioAdd(acc, value(mm)), Ratio(0, 1), moduleMetrics)
        average(s) == IF moduleCount = 0 THEN Ratio(0, 1)
                      ELSE Ratio(s.num, s.den * moduleCount)
    IN  [name |-> crate.name,
         totalModules |-> moduleCount,
         totalTypes |-> total(LAMBDA mm : mm.counts.totalTypes + mm.counts.totalTraits),
         totalFunctions |-> total(LAMBDA mm : mm.counts.totalFunctions),
         averageInstability |-> average(sum(LAMBDA mm : mm.base.instability)),
         averageAbstractness |-> average(sum(LAMBDA mm : mm.base.abstractness)),
         averageDistance |-> average(sum(LAMBDA mm : mm.base.distanceFromMainSequence)),
         cycleCount |-> Len(cycleList)]

calculateMetrics(g, crate, cycleList) ==
    LET nodeMetrics == FlatMap(LAMBDA n : <<calculateNodeMetrics(g, cycleList, n.id)>>, g.nodes)
        moduleMetrics ==
            FlatMap(LAMBDA nm : IF nm.kind = "module"
                                THEN <<calculateModuleMetrics(crate, nm.id, nm)>>
                                ELSE <<>>,
                    nodeMetrics)
    IN  [crateName |-> crate.name,
         crateMetrics |-> calculateCrateMetrics(crate, moduleMetrics, cycleList),
         moduleMetrics |-> moduleMetrics,
         nodeMetrics |-> nodeMetrics]

(***************************************************************************)
(* The analysed sources.  A source tree is a fixed skeleton plus the       *)
(* optional fragments in `frags`.                                          *)
(*                                                                         *)
(* Single crate "demo":                                                    *)
(*   src/lib.rs   [use crate::a::C;]  mod a;                               *)
(*                pub struct A { [b: B, b2: B,] [next: Option<Box<A>>] }   *)
(*                struct B { [a: Vec<A>,] [c: C] }                          *)
(*                pub trait T [: U] { fn m(&self [, a: A]); }              *)
(*                pub fn f([a: A, r: &B]) [-> A] { [f();] [g();] }         *)
(*                fn g() { [h();] }                                        *)
(*                [impl T for A { fn new(&self) -> A { self.new() } }]     *)
(*                [mod imp { pub struct P; }]                              *)
(*                [mod imp { pub struct Q { p: P } }]                      *)
(*   src/a.rs     [use crate::a;]                                          *)
(*                pub struct C { [a: A] }                                  *)
(*                pub fn h() { [g();] }                                    *)
(*                pub trait U { }                                          *)
(*                                                                         *)
(* Workspace of the crates "alpha" and "beta":                             *)
(*   alpha/src/lib.rs  pub struct Widget { [g: Gadget] }                   *)
(*                     pub struct Gadget;  pub trait Tr { }                *)
(*   beta/src/lib.rs   [use alpha::Widget;] [use alpha::{Gadget as G, Tr};]*)
(*                     struct S { [w: Vec<Widget>] }                       *)
(*                     fn f([w: Widget]) [-> G] { }                        *)
(*                     [impl Tr for S { }]                                 *)
(***************************************************************************)
SingleFragments ==
    {"A.b", "A.self", "B.a", "B.c", "C.a", "f.sig", "f.f", "f.g", "g.h", "h.g", "T.sig", "T.U", "impl", "use.C", "use.self", "imp1", "imp2"}

WorkspaceFragments == {"W.g", "b.use", "b.use2", "S.w", "f.w", "f.ret", "b.impl"}

Opt(S, frag, items) == IF frag \in S THEN items ELSE <<>>

LibRs(S) ==
    Opt(S, "use.C", <<UseDecl(<<"crate", "a", "C">>, <<>>, FALSE, "", 1)>>)
    \o <<ModDecl("a", 2),
         StructItem("A", "public",
                    Opt(S, "A.b", <<Ty("B", 3), Ty("B", 4)>>)
                    \o Opt(S, "A.self", <<Gen("Option", <<Gen("Box", <<Ty("A", 5)>>, 5)>>, 5)>>),
                    3),
         StructItem("B", "private",
                    Opt(S, "B.a", <<Gen("Vec", <<Ty("A", 7)>>, 7)>>)
                    \o Opt(S, "B.c", <<Ty("C", 8)>>),
                    6),
         TraitItem("T", "public", Opt(S, "T.U", <<Ty("U", 9)>>),
                   <<FnSig("m", <<SelfParam>> \o Opt(S, "T.sig", <<Param(Ty("A", 10))>>),
                           <<>>, 10)>>,
                   9),
         FnItem("f", "public",
                Opt(S, "f.sig", <<Param(Ty("A", 11)), Param(RefTy(Ty("B", 11)))>>),
                Opt(S, "f.sig", <<Ty("A", 11)>>),
                Opt(S, "f.f", << <<"f">> >>) \o Opt(S, "f.g", << <<"g">> >>),
                <<>>, 11),
         FnItem("g", "private", <<>>, <<>>, Opt(S, "g.h", << <<"h">> >>), <<>>, 12)>>
    \o Opt(S, "impl",
           <<ImplItem(<<Ty("T", 13)>>, Ty("A", 13),
                      <<FnItem("new", "public", <<SelfParam>>, <<Ty("A", 14)>>,
                               <<>>, <<"new">>, 14)>>,
                      13)>>)
    \o Opt(S, "imp1", <<InlineMod("imp", FALSE, <<StructItem("P", "public", <<>>, 16)>>, 15)>>)
    \o Opt(S, "imp2", <<InlineMod("imp", FALSE,
                                  <<StructItem("Q", "public", <<Ty("P", 18)>>, 18)>>, 17)>>)

ARs(S) ==
    Opt(S, "use.self", <<UseDecl(<<"crate", "a">>, <<>>, FALSE, "", 1)>>)
    \o <<StructItem("C", "public", Opt(S, "C.a", <<Ty("A", 2)>>), 2),
         FnItem("h", "public", <<>>, <<>>, Opt(S, "h.g", << <<"g">> >>), <<>>, 4),
         TraitItem("U", "public", <<>>, <<>>, 5)>>

AlphaRs(S) ==
    <<StructItem("Widget", "public", Opt(S, "W.g", <<Ty("Gadget", 1)>>), 1),
      StructItem("Gadget", "public", <<>>, 2),
      TraitItem("Tr", "public", <<>>, <<>>, 3)>>

BetaRs(S) ==
    Opt(S, "b.use", <<UseDecl(<<"alpha", "Widget">>, <<>>, FALSE, "", 1)>>)
    \o Opt(S, "b.use2",
           <<UseDecl(<<"alpha">>, <<UseItem("Gadget", "G"), UseItem("Tr", "")>>,
                     FALSE, "", 2)>>)
    \o <<StructItem("S", "private", Opt(S, "S.w", <<Gen("Vec", <<Ty("Widget", 3)>>, 3)>>), 3),
         FnItem("f", "private", Opt(S, "f.w", <<Param(Ty("Widget", 4))>>),
                Opt(S, "f.ret", <<Ty("G", 4)>>), <<>>, <<>>, 4)>>
    \o Opt(S, "b.impl", <<ImplItem(<<Ty("Tr", 5)>>, Ty("S", 5), <<>>, 5)>>)

Project(name, libItems, others) ==
    [dir |-> name,
     manifest |-> <<[package |-> <<name>>, libPath |-> <<>>, bin |-> <<>>]>>,
     files |-> (File(<<"src">>, "lib") :> libItems) @@ others]

(***************************************************************************)
(* Crate "mods": imports between the modules of one crate.                 *)
(*   src/lib.rs   [use crate::a::Foo;] [use crate::m::*;]                  *)
(*                [use self::a::Foo;] [use a::Foo;]                        *)
(*                [mod a;] [mod b;] [mod m;] [mod main;] [mod orphan;]     *)
(*                [struct S;] [pub trait T { }] [impl T for S { }]         *)
(*                [impl Foo { pub fn make() -> S { } }]                    *)
(*                [pub type Id = S;]                                       *)
(*   src/a.rs     [use crate::b::U;] [use super::S;]                       *)
(*                [pub struct Foo;] [pub struct T;]                        *)
(*   src/b.rs     [use crate::a::T;]                                       *)
(*                [pub struct U { [t: T,] [s: crate::a::T] }] [fn T() { }] *)
(*   src/m.rs     [pub struct X; pub enum Y { } pub struct Z;]             *)
(*                [pub mod deep { pub struct D; }]                         *)
(*   src/main.rs  [mod lib;] [mod a;]                                      *)
(* A file exists when its `mod` declaration is present, but for `mod       *)
(* orphan;`, which has no file.  With the fragment "a.locked", src/a.rs    *)
(* cannot be read.  One source tree holds the fragments of one group.      *)
(***************************************************************************)
ModuleFragmentGroups ==
    {{"a", "use.Foo", "Foo", "use.self", "use.bare", "a.super", "S", "impl.Foo"},
     {"a", "b", "a.use", "a.T", "b.use", "b.U"},
     {"m", "use.glob", "m.types", "m.deep"},
     {"S", "T", "impl.T.S", "alias"},
     {"a", "b", "a.T", "b.use", "b.U", "T", "b.U.t", "b.U.s", "b.fn"},
     {"a", "main", "main.lib", "main.a", "a.locked", "orphan"}}

ModsLibRs(S) ==
    Opt(S, "use.Foo", <<UseDecl(<<"crate", "a", "Foo">>, <<>>, FALSE, "", 1)>>)
    \o Opt(S, "use.glob", <<UseDecl(<<"crate", "m">>, <<>>, TRUE, "", 2)>>)
    \o Opt(S, "use.self", <<UseDecl(<<"self", "a", "Foo">>, <<>>, FALSE, "", 2)>>)
    \o Opt(S, "use.bare", <<UseDecl(<<"a", "Foo">>, <<>>, FALSE, "", 2)>>)
    \o Opt(S, "a", <<ModDecl("a", 3)>>)
    \o Opt(S, "b", <<ModDecl("b", 4)>>)
    \o Opt(S, "m", <<ModDecl("m", 5)>>)
    \o Opt(S, "main", <<ModDecl("main", 5)>>)
    \o Opt(S, "orphan", <<ModDecl("orphan", 5)>>)
    \o Opt(S, "S", <<StructItem("S", "private", <<>>, 6)>>)
    \o Opt(S, "T", <<TraitItem("T", "public", <<>>, <<>>, 7)>>)
    \o Opt(S, "impl.T.S", <<ImplItem(<<Ty("T", 8)>>, Ty("S", 8), <<>>, 8)>>)
    \o Opt(S, "alias", <<TypeItem("Id", "public", 11)>>)
    \o Opt(S, "impl.Foo",
           <<ImplItem(<<>>, Ty("Foo", 9),
                      <<FnItem("make", "public", <<>>, <<Ty("S", 10)>>, <<>>, <<>>, 10)>>,
                      9)>>)

ModsARs(S) ==
    Opt(S, "a.use", <<UseDecl(<<"crate", "b", "U">>, <<>>, FALSE, "", 1)>>)
    \o Opt(S, "a.super", <<UseDecl(<<"super", "S">>, <<>>, FALSE, "", 1)>>)
    \o Opt(S, "Foo", <<StructItem("Foo", "public", <<>>, 2)>>)
    \o Opt(S, "a.T", <<StructItem("T", "public", <<>>, 3)>>)

ModsBRs(S) ==
    Opt(S, "b.use", <<UseDecl(<<"crate", "a", "T">>, <<>>, FALSE, "", 1)>>)
    \o Opt(S, "b.U",
           <<StructItem("U", "public",
                        Opt(S, "b.U.t", <<Ty("T", 3)>>)
                        \o Opt(S, "b.U.s",
                               <<[Ty("T", 4) EXCEPT !.name = <<"crate", "a", "T">>]>>),
                        2)>>)
    \o Opt(S, "b.fn", <<FnItem("T", "private", <<>>, <<>>, <<>>, <<>>, 5)>>)

ModsMRs(S) ==
    Opt(S, "m.types", <<StructItem("X", "public", <<>>, 1),
                        EnumItem("Y", "public", <<>>, 2),
                        StructItem("Z", "public", <<>>, 3)>>)
    \o Opt(S, "m.deep", <<InlineMod("deep", FALSE,
                                    <<StructItem("D", "public", <<>>, 5)>>, 4)>>)

ModsMainRs(S) ==
    Opt(S, "main.lib", <<ModDecl("lib", 1)>>) \o Opt(S, "main.a", <<ModDecl("a", 2)>>)

\* the files of S that are present, as a map
FilesOf(S, present) ==
    [f \in {g \in DOMAIN present : present[g].when \subseteq S} |-> present[f].items]

ModsProject(S) ==
    Project("mods", ModsLibRs(S),
            FilesOf(S, (File(<<"src">>, "a") :>
                          [when |-> {"a"},
                           items |-> IF "a.locked" \in S THEN Unreadable ELSE ModsARs(S)])
                       @@ (File(<<"src">>, "main") :>
                             [when |-> {"main"}, items |-> ModsMainRs(S)])
                       @@ (File(<<"src">>, "b") :> [when |-> {"b"}, items |-> ModsBRs(S)])
                       @@ (File(<<"src">>, "m") :> [when |-> {"m"}, items |-> ModsMRs(S)])))

(***************************************************************************)
(* Crate "tested": a crate with test code, in one of two layouts.          *)
(*   src/lib.rs          mod utils; mod utils_tests; [mod integration;]    *)
(*                       #[cfg(test)] mod tests { fn t() { } }             *)
(*   src/utils.rs        pub fn u() { }                                    *)
(*   src/utils_tests.rs  fn tu() { }                                       *)
(*   tests/integration.rs  fn it() { }                                     *)
(* and, with the fragment "root", the manifest names lib.rs of the crate   *)
(* directory as the library:                                               *)
(*   lib.rs              mod utils; mod utils_tests; mod tests;            *)
(*                       #[cfg(test)] mod unit { fn t() { } }              *)
(*   utils.rs, utils_tests.rs   as above                                   *)
(*   tests.rs            mod integration;                                  *)
(*   tests/integration.rs  fn it() { }                                     *)
(***************************************************************************)
TestedFragments == {"root", "mod.integration"}

TestedLibRs(S) ==
    <<ModDecl("utils", 1), ModDecl("utils_tests", 2)>>
    \o (IF "root" \in S THEN <<ModDecl("tests", 3)>>
        ELSE Opt(S, "mod.integration", <<ModDecl("integration", 3)>>))
    \o <<InlineMod(IF "root" \in S THEN "unit" ELSE "tests", TRUE,
                   <<FnItem("t", "private", <<>>, <<>>, <<>>, <<>>, 5)>>, 4)>>

UtilsRs == <<FnItem("u", "public", <<>>, <<>>, <<>>, <<>>, 1)>>

UtilsTestsRs == <<FnItem("tu", "private", <<>>, <<>>, <<>>, <<>>, 1)>>

IntegrationRs == <<FnItem("it", "private", <<>>, <<>>, <<>>, <<>>, 1)>>

TestedProject(S) ==
    IF "root" \in S
    THEN [dir |-> "tested",
          manifest |-> <<[package |-> <<"tested">>, libPath |-> <<File(<<>>, "lib")>>,
                          bin |-> <<>>]>>,
          files |-> (File(<<>>, "lib") :> TestedLibRs(S))
                    @@ (File(<<>>, "utils") :> UtilsRs)
                    @@ (File(<<>>, "utils_tests") :> UtilsTestsRs)
                    @@ (File(<<>>, "tests") :> <<ModDecl("integration", 1)>>)
                    @@ (File(<<"tests">>, "integration") :> IntegrationRs)]
    ELSE Project("tested", TestedLibRs(S),
                 (File(<<"src">>, "utils") :> UtilsRs)
                 @@ (File(<<"src">>, "utils_tests") :> UtilsTestsRs)
                 @@ (File(<<"tests">>, "integration") :> IntegrationRs))

\* the relative paths minimatch accepts for "**/utils*.rs", "tests/**" and "src/**"
UtilsGlob ==
    {File(<<"src">>, "utils"), File(<<"src">>, "utils_tests"),
     File(<<>>, "utils"), File(<<>>, "utils_tests")}

TestsDirGlob == {File(<<"tests">>, "integration")}

SrcGlob == {File(<<"src">>, "lib"), File(<<"src">>, "utils"), File(<<"src">>, "utils_tests")}

\* the filter configurations the crate "tested" is resolved with
FilterConfigs ==
    [excludePatterns : {<<>>, <<UtilsGlob>>, <<TestsDirGlob>>},
     includePatterns : {<<>>, <<SrcGlob>>, <<TestsDirGlob, UtilsGlob>>},
     excludeTestFiles : BOOLEAN, excludeTestsDirectory : BOOLEAN,
     excludeCfgTest : BOOLEAN]

(***************************************************************************)
(* Directory "entrydir": the entry point of a crate.                       *)
(*   [Cargo.toml]    [[package] name = "pkg"]                              *)
(*                   [[lib] path = "src/mylib.rs"]                         *)
(*                   [[[bin]] name = "cli"  path = "src/cli.rs"]           *)
(*   [src/lib.rs] [src/main.rs] [src/mylib.rs] [src/cli.rs]                *)
(*                   each:  pub fn run() { }                               *)
(***************************************************************************)
EntryFiles == {"src/lib.rs", "src/main.rs", "src/mylib.rs", "src/cli.rs"}

ManifestFragments == {"package", "lib.path", "bin.path"}

EntryFragments == {"Cargo.toml"} \cup ManifestFragments \cup EntryFiles

EntryRs == <<FnItem("run", "public", <<>>, <<>>, <<>>, <<>>, 1)>>

EntryFile(f) ==
    File(<<"src">>, CASE f = "src/lib.rs" -> "lib" [] f = "src/main.rs" -> "main"
                      [] f = "src/mylib.rs" -> "mylib" [] OTHER -> "cli")

EntryProject(S) ==
    [dir |-> "entrydir",
     manifest |-> Opt(S, "Cargo.toml",
                      <<[package |-> Opt(S, "package", <<"pkg">>),
                         libPath |-> Opt(S, "lib.path", <<EntryFile("src/mylib.rs")>>),
                         bin |-> <<[name |-> "cli",
                                    path |-> Opt(S, "bin.path",
                                                 <<EntryFile("src/cli.rs")>>)]>>]>>),
     files |-> [f \in {EntryFile(n) : n \in S \cap EntryFiles} |-> EntryRs]]

Modes == {"single", "workspace", "mods", "tested", "entry"}

\* the projects the resolver is run on: the members in workspace mode, else one
Projects(m, S) ==
    CASE m = "single" -> <<Project("demo", LibRs(S), File(<<"src">>, "a") :> ARs(S))>>
      [] m = "workspace" ->
            <<Project("alpha", AlphaRs(S), <<>>), Project("beta", BetaRs(S), <<>>)>>
      [] m = "mods" -> <<ModsProject(S)>>
      [] m = "tested" -> <<TestedProject(S)>>
      [] OTHER -> <<EntryProject(S)>>

\* the source trees the model analyses
SourceTrees(m) ==
    CASE m = "single" -> {S \in SUBSET SingleFragments : Cardinality(S) <= MaxFragments}
      [] m = "workspace" ->
            {S \in SUBSET WorkspaceFragments : Cardinality(S) <= MaxFragments}
      [] m = "mods" -> UNION {SUBSET G : G \in ModuleFragmentGroups}
      [] m = "tested" -> SUBSET TestedFragments
      [] OTHER -> {S \in SUBSET EntryFragments :
                     (S \cap ManifestFragments # {}) => "Cargo.toml" \in S}

\* the filter configurations they are resolved with
ConfigsOf(m) == IF m = "tested" THEN FilterConfigs ELSE {createDefaultFilterConfig}

(***************************************************************************)
(* The pipeline of the command-line driver as a state machine.             *)
(***************************************************************************)
NoGraph == [nodes |-> <<>>, edges |-> <<>>, adjacencyList |-> <<>>,
            reverseAdjacencyList |-> <<>>]

Init ==
    /\ mode \in Modes
    /\ frags \in SourceTrees(mode)
    /\ filterConfig \in ConfigsOf(mode)
    /\ crates = <<>>
    /\ parsed = <<>>
    /\ pc = "start"
    /\ crateIdx = 0
    /\ builder = NewBuilder
    /\ ws = NewBuilder
    /\ pending = <<>>
    /\ graph = NoGraph
    /\ cycles = <<>>
    /\ moduleGraph = NoGraph
    /\ moduleCycles = <<>>
    /\ metrics = <<>>

\* ModuleResolver.resolve / resolveWorkspace; when resolve() throws, the run ends
\* without a crate definition
Resolve ==
    /\ pc = "start"
    /\ LET projects == Projects(mode, frags)
           results == FlatMap(LAMBDA project : <<resolve(project, filterConfig)>>, projects)
       IN  /\ parsed' = FlatMap(LAMBDA i : FlatMap(LAMBDA f : << <<projects[i].dir, f>> >>,
                                                   results[i].parsed),
                                [i \in 1..Len(projects) |-> i])
           /\ IF \A i \in 1..Len(results) : results[i].ok
              THEN /\ crates' = FlatMap(LAMBDA r : <<r.crate>>, results)
                   /\ crateIdx' = 1
                   /\ pc' = "nodes"
              ELSE /\ crates' = <<>>
                   /\ crateIdx' = 0
                   /\ pc' = "failed"
    /\ UNCHANGED <<mode, frags, filterConfig, builder, ws, pending, graph, cycles,
                   moduleGraph, moduleCycles, metrics>>

CratePrefix == IF mode = "workspace" THEN crates[crateIdx].name ELSE ""

Context(b, crate, cratePrefix) ==
    [nodes |-> b.nodes, cratePrefix |-> cratePrefix,
     index |-> buildSymbolIndex(crate.rootModule), aliases |-> <<>>,
     currentModule |-> <<>>]

\* DependencyGraphBuilder.build, pass 1, and the addEdge calls of pass 2
BuildNodes ==
    /\ pc = "nodes"
    /\ LET crate == crates[crateIdx]
           b == buildNodes(NewBuilder, CratePrefix, crate.rootModule, NoId)
       IN  /\ builder' = b
           /\ pending' = processModule(Context(b, crate, CratePrefix), crate.rootModule)
    /\ pc' = "edges"
    /\ UNCHANGED <<mode, frags, filterConfig, parsed, crates, crateIdx, ws, graph, cycles, moduleGraph,
                   moduleCycles, metrics>>

\* one addEdge call of pass 2
AddEdge ==
    /\ pc = "edges"
    /\ pending # <<>>
    /\ builder' = addEdge(builder, Head(pending))
    /\ pending' = Tail(pending)
    /\ UNCHANGED <<mode, frags, filterConfig, parsed, crates, pc, crateIdx, ws, graph, cycles, moduleGraph,
                   moduleCycles, metrics>>

\* buildDependencyGraph returns
FinishBuild ==
    /\ pc = "edges"
    /\ pending = <<>>
    /\ mode # "workspace"
    /\ graph' = GraphOf(builder)
    /\ pc' = "built"
    /\ UNCHANGED <<mode, frags, filterConfig, parsed, crates, crateIdx, builder, ws, pending,
                   cycles, moduleGraph, moduleCycles, metrics>>

\* build() of the workspace builder: the graph of one crate is merged; after the
\* last crate, the addEdge calls of resolveInterCrateDependencies
MergeCrate ==
    /\ pc = "edges"
    /\ pending = <<>>
    /\ mode = "workspace"
    /\ ws' = mergeCrate(ws, GraphOf(builder))
    /\ IF crateIdx < Len(crates)
       THEN /\ crateIdx' = crateIdx + 1
            /\ pc' = "nodes"
            /\ pending' = <<>>
       ELSE /\ crateIdx' = crateIdx
            /\ pc' = "link"
            /\ pending' = resolveInterCrateDependencies(ws'.nodes, crates)
    /\ UNCHANGED <<mode, frags, filterConfig, parsed, crates, builder, graph, cycles, moduleGraph,
                   moduleCycles, metrics>>

\* one addEdge call of the workspace builder
WsAddEdge ==
    /\ pc = "link"
    /\ pending # <<>>
    /\ ws' = addEdge(ws, Head(pending))
    /\ pending' = Tail(pending)
    /\ UNCHANGED <<mode, frags, filterConfig, parsed, crates, pc, crateIdx, builder, graph, cycles,
                   moduleGraph, moduleCycles, metrics>>

\* buildWorkspaceGraph returns
FinishWorkspace ==
    /\ pc = "link"
    /\ pending = <<>>
    /\ graph' = GraphOf(ws)
    /\ pc' = "built"
    /\ UNCHANGED <<mode, frags, filterConfig, parsed, crates, crateIdx, builder, ws, pending,
                   cycles, moduleGraph, moduleCycles, metrics>>

DetectCycles ==
    /\ pc = "built"
    /\ cycles' = detectCycles(graph)
    /\ pc' = "cycles"
    /\ UNCHANGED <<mode, frags, filterConfig, parsed, crates, crateIdx, builder, ws, pending, graph,
                   moduleGraph, moduleCycles, metrics>>

CalculateMetrics ==
    /\ pc = "cycles"
    /\ metrics' = <<calculateMetrics(graph, MetricsCrate(mode, crates), cycles)>>
    /\ pc' = "metrics"
    /\ UNCHANGED <<mode, frags, filterConfig, parsed, crates, crateIdx, builder, ws, pending, graph,
                   cycles, moduleGraph, moduleCycles>>

AggregateToModuleLevel ==
    /\ pc = "metrics"
    /\ moduleGraph' = aggregateToModuleLevel(graph)
    /\ pc' = "aggregated"
    /\ UNCHANGED <<mode, frags, filterConfig, parsed, crates, crateIdx, builder, ws, pending, graph,
                   cycles, moduleCycles, metrics>>

DetectModuleLevelCycles ==
    /\ pc = "aggregated"
    /\ moduleCycles' = detectModuleLevelCycles(graph)
    /\ pc' = "done"
    /\ UNCHANGED <<mode, frags, filterConfig, parsed, crates, crateIdx, builder, ws, pending, graph,
                   cycles, moduleGraph, metrics>>

Next ==
    \/ Resolve
    \/ BuildNodes
    \/ AddEdge
    \/ FinishBuild
    \/ MergeCrate
    \/ WsAddEdge
    \/ FinishWorkspace
    \/ DetectCycles
    \/ CalculateMetrics
    \/ AggregateToModuleLevel
    \/ DetectModuleLevelCycles

Spec == Init /\ [][Next]_vars

(***************************************************************************)
(* Properties of the dependency graph.                                     *)
(***************************************************************************)
EdgesOf(g) == {g.edges[i] : i \in 1..Len(g.edges)}

IdsOf(g) == {g.nodes[i].id : i \in 1..Len(g.nodes)}

Built == pc \in {"built", "cycles", "metrics", "aggregated", "done"}

\* C1: in a returned graph both endpoints of every edge are keys of the node map
\* and the two endpoints differ, whatever the dependency kind.
C1_EdgesJoinDistinctNodes ==
    \A e \in EdgesOf(graph) :
        /\ e.from \in IdsOf(graph)
        /\ e.to \in IdsOf(graph)
        /\ e.from # e.to

AdjacencyMatchesEdges(g) ==
    /\ DOMAIN g.adjacencyList = IdsOf(g)
    /\ DOMAIN g.reverseAdjacencyList = IdsOf(g)
    /\ \A a \in IdsOf(g) :
          /\ Range(g.adjacencyList[a]) = {e.to : e \in {x \in EdgesOf(g) : x.from = a}}
          /\ Range(g.reverseAdjacencyList[a])
                = {b \in IdsOf(g) : a \in Range(g.adjacencyList[b])}

\* C2: in the graph a build returns, in the workspace builder after each merge and
\* each inter-crate edge, and in the graph aggregateToModuleLevel returns, b is in
\* adjacencyList[a] iff some edge goes from a to b, a is in reverseAdjacencyList[b]
\* iff b is in adjacencyList[a], and the keys of both maps are the node ids.
C2_AdjacencyMatchesEdges ==
    /\ AdjacencyMatchesEdges(graph)
    /\ AdjacencyMatchesEdges(GraphOf(ws))
    /\ AdjacencyMatchesEdges(moduleGraph)

\* a workspace graph with an edge from one crate to another has been returned and
\* aggregated to an edge between modules
C2_Witness ==
    /\ pc = "done"
    /\ mode = "workspace"
    /\ \E e \in EdgesOf(graph) : e.from[1] # e.to[1]
    /\ \E e \in EdgesOf(moduleGraph) : e.from[1] # e.to[1] /\ e.count > 1

SameTriple(e, call) ==
    e.from = call.fromId /\ e.to = call.toId /\ e.depType = call.depType

UniqueTriples(edgeMap) ==
    \A i \in 1..Len(edgeMap), j \in 1..Len(edgeMap) :
        (/\ edgeMap[i].from = edgeMap[j].from
         /\ edgeMap[i].to = edgeMap[j].to
         /\ edgeMap[i].depType = edgeMap[j].depType) => i = j

\* what one emission does to the edge list
EmissionEffect(before, after, call) ==
    /\ UniqueTriples(after)
    /\ IF \E i \in 1..Len(before) : SameTriple(before[i], call)
       THEN /\ Len(after) = Len(before)
            /\ \A i \in 1..Len(before) :
                  IF SameTriple(before[i], call)
                  THEN /\ after[i].count = before[i].count + 1
                       /\ after[i].locations = Append(before[i].locations, call.location)
                       /\ SameTriple(after[i], call)
                  ELSE after[i] = before[i]
       ELSE /\ Len(after) = Len(before) + 1
            /\ SubSeq(after, 1, Len(before)) = before
            /\ Last(after) = [from |-> call.fromId, to |-> call.toId,
                              depType |-> call.depType, count |-> 1,
                              locations |-> <<call.location>>]

Emitted(nodes, call) == HasNode(nodes, call.fromId) /\ HasNode(nodes, call.toId)

\* C3: every emission of a build (by a crate's builder or by the workspace builder)
\* leaves at most one edge per (from, to, depType); when the triple is present
\* the number of edges is unchanged, that edge's count grows by 1, one location is
\* appended to it and no other edge changes; when it is new, one edge with count 1
\* and one location is added.
C3_EmissionEffect ==
    [][/\ (pc = "edges" /\ pending # <<>> /\ Emitted(builder.nodes, Head(pending)))
            => EmissionEffect(builder.edgeMap, builder'.edgeMap, Head(pending))
       /\ (pc = "link" /\ pending # <<>> /\ Emitted(ws.nodes, Head(pending)))
            => EmissionEffect(ws.edgeMap, ws'.edgeMap, Head(pending))]_vars

\* a triple has been emitted a second time by a crate's builder
C3_Witness ==
    /\ pc = "edges"
    /\ \E i \in 1..Len(builder.edgeMap) :
          /\ builder.edgeMap[i].count = 2
          /\ Len(builder.edgeMap[i].locations) = 2
    /\ Len(builder.edgeMap) > 1

CountIsLocations(edges) ==
    \A i \in 1..Len(edges) :
        edges[i].count >= 1 /\ edges[i].count = Len(edges[i].locations)

\* C4: every edge of a returned graph, of the graph aggregated to module level and
\* of a cycle returned by detectCycles or detectModuleLevelCycles has a count of
\* at least 1 that equals the length of its locations list.
C4_CountIsLocations ==
    /\ CountIsLocations(graph.edges)
    /\ CountIsLocations(moduleGraph.edges)
    /\ \A i \in 1..Len(cycles) : CountIsLocations(cycles[i].edges)
    /\ \A i \in 1..Len(moduleCycles) : CountIsLocations(moduleCycles[i].edges)

RECURSIVE ReachesRoot(_, _, _)
ReachesRoot(g, id, fuel) ==
    IF ~HasNode(g.nodes, id) \/ fuel = 0 THEN FALSE
    ELSE IF GetNode(g.nodes, id).parentId = NoId THEN TRUE
    ELSE ReachesRoot(g, GetNode(g.nodes, id).parentId, fuel - 1)

RootIds == IF mode # "workspace" THEN {<<"crate">>}
           ELSE {<<crates[i].name, "crate">> : i \in 1..Len(crates)}

\* C5: in a returned graph the nodes without parent are the root modules (`crate`,
\* or `<crateName>::crate` for each crate of a workspace); every other node's
\* parentId is a node key, its id is in the children of that parent and of no other
\* node, and its chain of parents ends at a root.
C5_ParentChildTree ==
    Built =>
      /\ {n \in Range(graph.nodes) : n.parentId = NoId}
            = {n \in Range(graph.nodes) : n.id \in RootIds}
      /\ \A r \in RootIds : r \in IdsOf(graph)
      /\ \A n \in Range(graph.nodes) :
            n.parentId # NoId =>
              /\ n.parentId \in IdsOf(graph)
              /\ \A m \in Range(graph.nodes) :
                    Contains(m.children, n.id) <=> m.id = n.parentId
              /\ ReachesRoot(graph, n.id, Len(graph.nodes))

(***************************************************************************)
(* Properties of the detected cycles.                                      *)
(***************************************************************************)
\* the nodes of S one adjacency-list edge away from a node of X
StepWithin(g, S, X) ==
    {b \in S : \E a \in X : a \in DOMAIN g.adjacencyList /\ b \in Range(g.adjacencyList[a])}

RECURSIVE ClosureWithin(_, _, _)
ClosureWithin(g, S, X) ==
    LET Y == X \cup StepWithin(g, S, X) IN
    IF Y = X THEN X ELSE ClosureWithin(g, S, Y)

\* the nodes a path of one or more edges leads to from a, all of its nodes in S
ReachableWithin(g, S, a) == ClosureWithin(g, S, StepWithin(g, S, {a}))

MutuallyReachableWithin(g, cycle) ==
    \A a \in Range(cycle.nodes), b \in Range(cycle.nodes) :
        b \in ReachableWithin(g, Range(cycle.nodes), a)

CyclesDetected == pc \in {"cycles", "metrics", "aggregated", "done"}

\* C6: in every cycle detectCycles returns, from every node a of the cycle a path
\* of one or more adjacency-list edges leads to every node b of the cycle (b = a
\* included) without leaving the cycle.
C6_CycleMutuallyReachable ==
    /\ \A i \in 1..Len(cycles) : MutuallyReachableWithin(graph, cycles[i])
    /\ \A i \in 1..Len(moduleCycles) :
          MutuallyReachableWithin(aggregateToModules(graph), moduleCycles[i])

\* a one-node cycle and a cycle of two nodes or more have been returned, and a
\* cycle of modules
C6_Witness ==
    /\ \E i \in 1..Len(cycles) : Len(cycles[i].nodes) = 1
    /\ \E i \in 1..Len(cycles) : Len(cycles[i].nodes) >= 2
    /\ moduleCycles # <<>>

\* for each node, the nodes a path of one or more edges leads to
Reachability(g) == [a \in IdsOf(g) |-> ReachableWithin(g, IdsOf(g), a)]

\* the strongly connected component of a, given the reachability of the graph
Component(reach, a) == {a} \cup {b \in reach[a] : a \in reach[b]}

\* C7: the node lists of the cycles detectCycles returns are, without repetition,
\* the strongly connected components of two nodes or more and the one-node
\* components whose node is its own neighbour; the edges of each cycle are the
\* edges of the graph with both endpoints in its node list.
C7_CyclesAreComponents ==
    CyclesDetected =>
      /\ LET reach == Reachability(graph) IN
         {Range(cycles[i].nodes) : i \in 1..Len(cycles)}
            = {Component(reach, a) :
                   a \in {b \in IdsOf(graph) : \/ Cardinality(Component(reach, b)) >= 2
                                               \/ b \in Range(graph.adjacencyList[b])}}
      /\ \A i \in 1..Len(cycles), j \in 1..Len(cycles) :
            i # j => Range(cycles[i].nodes) \cap Range(cycles[j].nodes) = {}
      /\ \A i \in 1..Len(cycles) :
            /\ Cardinality(Range(cycles[i].nodes)) = Len(cycles[i].nodes)
            /\ cycles[i].edges
                  = SelectSeq(graph.edges,
                              LAMBDA e : /\ e.from \in Range(cycles[i].nodes)
                                         /\ e.to \in Range(cycles[i].nodes))

\* two cycles have been returned for a graph that has an edge outside them and an
\* edge from one of them to a node outside
C7_Witness ==
    /\ CyclesDetected
    /\ Len(cycles) = 2
    /\ \E e \in EdgesOf(graph) :
          /\ e.from \in getNodesInCycles(cycles)
          /\ e.to \notin getNodesInCycles(cycles)

(***************************************************************************)
(* Properties of the metrics report.                                       *)
(***************************************************************************)
NodeMetricsOf == IF metrics = <<>> THEN {} ELSE Range(metrics[1].nodeMetrics)

ModuleMetricsOf ==
    IF metrics = <<>> THEN {} ELSE {mm.base : mm \in Range(metrics[1].moduleMetrics)}

InUnitInterval(r) == r.den > 0 /\ 0 <= r.num /\ r.num <= r.den

\* C8: the instability, the abstractness and the distance from the main sequence of
\* every node's metrics and of every module's metrics lie between 0 and 1.
C8_MetricsInUnitInterval ==
    \A m \in NodeMetricsOf \cup ModuleMetricsOf :
        /\ InUnitInterval(m.instability)
        /\ InUnitInterval(m.abstractness)
        /\ InUnitInterval(m.distanceFromMainSequence)

\* the report holds a trait that only depends, a node that is depended on and
\* depends, and a module with traits and types
C8_Witness ==
    /\ \E m \in NodeMetricsOf :
          m.kind = "trait" /\ m.efferentCoupling > 0 /\ m.afferentCoupling = 0
    /\ \E m \in NodeMetricsOf : m.efferentCoupling > 0 /\ m.afferentCoupling > 0
    /\ \E m \in ModuleMetricsOf : 0 < m.abstractness.num /\ m.abstractness.num < m.abstractness.den

Sources(g, n) == {e.from : e \in {x \in EdgesOf(g) : x.to = n}}

Targets(g, n) == {e.to : e \in {x \in EdgesOf(g) : x.from = n}}

\* C9: a node's afferent coupling is the number of distinct sources of the edges
\* into it, its efferent coupling the number of distinct targets of the edges out
\* of it, and its instability Ce / (Ca + Ce), or 0 when Ca + Ce = 0.
C9_CouplingFromEdges ==
    \A m \in NodeMetricsOf :
        LET Ca == Cardinality(Sources(graph, m.id))
            Ce == Cardinality(Targets(graph, m.id))
        IN  /\ m.afferentCoupling = Ca
            /\ m.efferentCoupling = Ce
            /\ m.instability.den > 0
            /\ IF Ca + Ce = 0 THEN m.instability.num = 0
               ELSE m.instability.num * (Ca + Ce) = Ce * m.instability.den

\* the report holds a node with two edges of different kinds to one target and a node
\* with an edge of count 2
C9_Witness ==
    /\ metrics # <<>>
    /\ \E e1 \in EdgesOf(graph), e2 \in EdgesOf(graph) :
          e1.from = e2.from /\ e1.to = e2.to /\ e1.depType # e2.depType
    /\ \E e \in EdgesOf(graph) : e.count = 2
    /\ \E m \in NodeMetricsOf : m.afferentCoupling >= 2

CyclesOfNode(id) == {i \in 1..Len(cycles) : Contains(cycles[i].nodes, id)}

\* C10: in the report computed with the detected cycles, inCycle holds of a node iff
\* a cycle lists it, cycleId is null iff inCycle is false, the cycle at a non-null
\* cycleId lists the node, and two nodes have the same non-null cycleId iff a cycle
\* lists both.
C10_CycleMembership ==
    \A m \in NodeMetricsOf :
        /\ m.inCycle <=> CyclesOfNode(m.id) # {}
        /\ (m.cycleId = <<>>) <=> ~m.inCycle
        /\ m.cycleId # <<>> => (m.cycleId[1] + 1) \in CyclesOfNode(m.id)
        /\ \A k \in NodeMetricsOf :
              (m.cycleId # <<>> /\ m.cycleId = k.cycleId)
                 <=> CyclesOfNode(m.id) \cap CyclesOfNode(k.id) # {}

\* the report is of a graph with two cycles and a node outside them
C10_Witness ==
    /\ Len(cycles) = 2
    /\ \E m \in NodeMetricsOf : m.cycleId = <<1>>
    /\ \E m \in NodeMetricsOf : m.cycleId = <<0>> /\ m.inCycle
    /\ \E m \in NodeMetricsOf : m.cycleId = <<>> /\ ~m.inCycle /\ m.efferentCoupling > 0

(***************************************************************************)
(* Aggregation, once and twice.                                            *)
(***************************************************************************)
Aggregated == pc \in {"aggregated", "done"}

\* C11: module-level aggregation is idempotent: aggregating the module graph of a
\* built graph again gives the same node ids, the same edges (from, to, depType,
\* count and locations) and the same adjacency lists.
C11_AggregationIdempotent ==
    Aggregated =>
        LET once == moduleGraph
            twice == aggregateToModuleLevel(moduleGraph)
        IN  /\ NodeIds(twice.nodes) = NodeIds(once.nodes)
            /\ twice.edges = once.edges
            /\ twice.adjacencyList = once.adjacencyList
            /\ twice.reverseAdjacencyList = once.reverseAdjacencyList

\* a graph with items below its modules was aggregated to a module graph that has an
\* edge collapsed from several edges and an edge in each direction between two modules
C11_Witness ==
    /\ Aggregated
    /\ \E i \in 1..Len(graph.nodes) : graph.nodes[i].kind # "module"
    /\ \E e \in EdgesOf(moduleGraph) : e.count > 1 /\ Len(e.locations) > 1
    /\ \E e, f \in EdgesOf(moduleGraph) : e.from = f.to /\ e.to = f.from

(***************************************************************************)
(* Worked examples of the crate "mods".                                    *)
(***************************************************************************)
\* the edges of g as (from, to, depType, count)
Quadruples(g) == {<<e.from, e.to, e.depType, e.count>> : e \in EdgesOf(g)}

\* the edges of g as (from, to, depType)
Triples(g) == {<<e.from, e.to, e.depType>> : e \in EdgesOf(g)}

MetricsCalculated == metrics # <<>>

\* the metrics of the node id; only used where the node exists
MetricsOfNode(id) == CHOOSE m \in NodeMetricsOf : m.id = id

IsZero(r) == r.num = 0

IsOne(r) == r.num = r.den

\* C12: for `mod a; use crate::a::Foo;` in the root module and `pub struct Foo;` in
\* module a, the graph has exactly the nodes crate, crate::a and crate::a::Foo and
\* the edges (crate, crate::a, use_import) and (crate, crate::a::Foo, use_import)
\* with count 1 each; no cycle is reported; Ce(crate) = 2, Ca(crate::a::Foo) = 1
\* and I(crate::a::Foo) = 0.
C12_ImportExample ==
    (mode = "mods" /\ frags = {"a", "use.Foo", "Foo"}) =>
        /\ Built =>
              /\ IdsOf(graph) = {<<"crate">>, <<"crate", "a">>, <<"crate", "a", "Foo">>}
              /\ Quadruples(graph) =
                    {<< <<"crate">>, <<"crate", "a">>, "use_import", 1 >>,
                     << <<"crate">>, <<"crate", "a", "Foo">>, "use_import", 1 >>}
        /\ CyclesDetected => cycles = <<>>
        /\ MetricsCalculated =>
              /\ MetricsOfNode(<<"crate">>).efferentCoupling = 2
              /\ MetricsOfNode(<<"crate", "a", "Foo">>).afferentCoupling = 1
              /\ IsZero(MetricsOfNode(<<"crate", "a", "Foo">>).instability)

\* C12, amended: for the same crate the graph has exactly the nodes crate, crate::a
\* and crate::a::Foo and the single edge (crate, crate::a::Foo, use_import) with
\* count 1; no cycle is reported; Ce(crate) = 1, Ca(crate::a::Foo) = 1 and
\* I(crate::a::Foo) = 0.
C12_ImportExampleOneEdge ==
    (mode = "mods" /\ frags = {"a", "use.Foo", "Foo"}) =>
        /\ Built =>
              /\ IdsOf(graph) = {<<"crate">>, <<"crate", "a">>, <<"crate", "a", "Foo">>}
              /\ Quadruples(graph) =
                    {<< <<"crate">>, <<"crate", "a", "Foo">>, "use_import", 1 >>}
        /\ CyclesDetected => cycles = <<>>
        /\ MetricsCalculated =>
              /\ MetricsOfNode(<<"crate">>).efferentCoupling = 1
              /\ MetricsOfNode(<<"crate", "a", "Foo">>).afferentCoupling = 1
              /\ IsZero(MetricsOfNode(<<"crate", "a", "Foo">>).instability)

\* the metrics of the two-file crate with one import were calculated
C12_Witness ==
    /\ mode = "mods" /\ frags = {"a", "use.Foo", "Foo"}
    /\ MetricsCalculated
    /\ \E m \in Range(crates[1].rootModule.submodules) :
          m.name = "a" /\ Len(m.structs) = 1
    /\ Len(crates[1].rootModule.uses) = 1

\* C13: when module a holds `use crate::b::U;` and type T, and module b holds
\* `use crate::a::T;` and type U, detectCycles reports exactly one cycle, of the
\* nodes crate::a::T and crate::b::U, and the metrics of both nodes have inCycle
\* true and the same cycleId.
C13_MutualImportCycle ==
    (mode = "mods" /\ frags = {"a", "b", "a.use", "a.T", "b.use", "b.U"}) =>
        /\ CyclesDetected =>
              /\ Len(cycles) = 1
              /\ Range(cycles[1].nodes) = {<<"crate", "a", "T">>, <<"crate", "b", "U">>}
        /\ MetricsCalculated =>
              LET t == MetricsOfNode(<<"crate", "a", "T">>)
                  u == MetricsOfNode(<<"crate", "b", "U">>)
              IN  t.inCycle /\ u.inCycle /\ t.cycleId = u.cycleId /\ t.cycleId # <<>>

\* C13, amended: for the same crate detectCycles reports no cycle, and the metrics
\* of crate::a::T and of crate::b::U have inCycle false and no cycleId.
C13_MutualImportNoCycle ==
    (mode = "mods" /\ frags = {"a", "b", "a.use", "a.T", "b.use", "b.U"}) =>
        /\ CyclesDetected => cycles = <<>>
        /\ MetricsCalculated =>
              LET t == MetricsOfNode(<<"crate", "a", "T">>)
                  u == MetricsOfNode(<<"crate", "b", "U">>)
              IN  ~t.inCycle /\ ~u.inCycle /\ t.cycleId = <<>> /\ u.cycleId = <<>>

\* the metrics of the two modules that import a type from each other were
\* calculated
C13_Witness ==
    /\ mode = "mods" /\ frags = {"a", "b", "a.use", "a.T", "b.use", "b.U"}
    /\ MetricsCalculated
    /\ Triples(graph) =
          {<< <<"crate", "a">>, <<"crate", "b", "U">>, "use_import" >>,
           << <<"crate", "b">>, <<"crate", "a", "T">>, "use_import" >>}

\* C14: `use crate::m::*;` in the root module yields one use_import edge from the
\* root module to each symbol declared directly in m and to nothing deeper: three
\* edges when m declares the three types X, Y and Z, none when m declares nothing.
C14_GlobImportEdges ==
    (mode = "mods" /\ {"m", "use.glob"} \subseteq frags /\ Built) =>
        {<<e.from, e.to>> : e \in {f \in EdgesOf(graph) : f.depType = "use_import"}}
          = {<< <<"crate">>, <<"crate", "m", n>> >> :
               n \in IF "m.types" \in frags THEN {"X", "Y", "Z"} ELSE {}}

(***************************************************************************)
(* The workspace of alpha and beta.                                        *)
(***************************************************************************)
\* C15: for crate alpha declaring Widget and crate beta holding `use alpha::Widget;`
\* and `fn f(w: Widget)`, buildWorkspaceGraph yields the nodes alpha::crate,
\* alpha::crate::Widget, beta::crate and beta::crate::f, the edge (beta::crate,
\* alpha::crate::Widget, use_import) and the edge (beta::crate::f,
\* alpha::crate::Widget, parameter_type).
C15_CrossCrateParameterType ==
    (mode = "workspace" /\ {"b.use", "f.w"} \subseteq frags /\ Built) =>
        /\ {<<"alpha", "crate">>, <<"alpha", "crate", "Widget">>, <<"beta", "crate">>,
             <<"beta", "crate", "f">>} \subseteq IdsOf(graph)
        /\ << <<"beta", "crate">>, <<"alpha", "crate", "Widget">>, "use_import" >>
              \in Triples(graph)
        /\ << <<"beta", "crate", "f">>, <<"alpha", "crate", "Widget">>, "parameter_type" >>
              \in Triples(graph)

\* C15, amended: for the same workspace buildWorkspaceGraph yields the four nodes,
\* the edge (beta::crate, alpha::crate::Widget, use_import) and the edge
\* (beta::crate::f, alpha::crate::Widget, field_type), and no parameter_type edge:
\* a cross-crate type reference in a function parameter is recorded with kind
\* field_type.
C15_CrossCrateFieldType ==
    (mode = "workspace" /\ {"b.use", "f.w"} \subseteq frags /\ Built) =>
        /\ {<<"alpha", "crate">>, <<"alpha", "crate", "Widget">>, <<"beta", "crate">>,
             <<"beta", "crate", "f">>} \subseteq IdsOf(graph)
        /\ << <<"beta", "crate">>, <<"alpha", "crate", "Widget">>, "use_import" >>
              \in Triples(graph)
        /\ << <<"beta", "crate", "f">>, <<"alpha", "crate", "Widget">>, "field_type" >>
              \in Triples(graph)
        /\ \A t \in Triples(graph) : t[3] # "parameter_type"

\* the workspace graph of alpha and beta, with the import and the parameter, was built
C15_Witness ==
    /\ mode = "workspace" /\ frags = {"b.use", "f.w"}
    /\ Built
    /\ Len(crates) = 2
    /\ \E fn \in Range(crates[2].rootModule.functions) :
          fn.name = "f" /\ Len(fn.params) = 1

(***************************************************************************)
(* Trait implementations.                                                  *)
(***************************************************************************)
\* the modules of the tree below (and with) module
RECURSIVE ModulesBelow(_)
ModulesBelow(module) ==
    {module} \cup UNION {ModulesBelow(module.submodules[i]) :
                           i \in 1..Len(module.submodules)}

\* (prefix, module) for every module of every resolved crate
ResolvedModules ==
    UNION {{<<IF mode = "workspace" THEN <<crates[k].name>> ELSE <<>>, m>> :
              m \in ModulesBelow(crates[k].rootModule)} : k \in 1..Len(crates)}

KindOfNode(g, id) == GetNode(g.nodes, id).kind

\* the impl blocks `impl Tr for Ty` whose Tr is a trait and whose Ty is a type
\* declared in the module of the block, as (self-type id, trait id)
LocalTraitImpls ==
    UNION {{<<pm[1] \o pm[2].path \o impl.selfType.name,
              pm[1] \o pm[2].path \o impl.traitRef[1].name>> :
              impl \in {x \in Range(pm[2].impls) :
                          /\ x.traitRef # <<>>
                          /\ \E d \in Range(pm[2].traits) : <<d.name>> = x.traitRef[1].name
                          /\ \E d \in Range(pm[2].structs \o pm[2].enums) :
                                <<d.name>> = x.selfType.name}} :
           pm \in ResolvedModules}

\* C16: an impl block with a trait reference whose trait and self type both resolve
\* to nodes of the crate gives a trait_impl edge from the self-type id to the trait
\* id.  For `struct S;`, a trait T and `impl T for S`, the edge (crate::S, crate::T,
\* trait_impl) is the only trait_impl edge, abstractness(crate::T) = 1 and
\* abstractness(crate::S) = 0.
C16_TraitImplEdge ==
    /\ Built =>
          \A st \in LocalTraitImpls :
              (st[1] \in IdsOf(graph) /\ st[2] \in IdsOf(graph)) =>
                  <<st[1], st[2], "trait_impl">> \in Triples(graph)
    /\ (mode = "mods" /\ frags = {"S", "T", "impl.T.S"}) =>
          /\ Built =>
                {t \in Triples(graph) : t[3] = "trait_impl"}
                  = {<< <<"crate", "S">>, <<"crate", "T">>, "trait_impl" >>}
          /\ MetricsCalculated =>
                /\ IsOne(MetricsOfNode(<<"crate", "T">>).abstractness)
                /\ IsZero(MetricsOfNode(<<"crate", "S">>).abstractness)

\* the metrics of `struct S; trait T {} impl T for S {}` were calculated
C16_Witness ==
    /\ mode = "mods" /\ frags = {"S", "T", "impl.T.S"}
    /\ MetricsCalculated
    /\ LocalTraitImpls = {<< <<"crate", "S">>, <<"crate", "T">> >>}
    /\ KindOfNode(graph, <<"crate", "T">>) = "trait"
    /\ KindOfNode(graph, <<"crate", "S">>) = "struct"

(***************************************************************************)
(* The empty crate.                                                        *)
(***************************************************************************)
CrateMetricsOf == metrics[1].crateMetrics

EmptyCrate == mode = "mods" /\ frags = {}

\* C17: for an empty crate the graph has exactly one node, the root module crate,
\* no edges and no cycles, and the crate metrics report averageInstability = 0,
\* averageAbstractness = 0 and averageDistance = 0.
C17_EmptyCrate ==
    EmptyCrate =>
        /\ Built => IdsOf(graph) = {<<"crate">>} /\ graph.edges = <<>>
        /\ CyclesDetected => cycles = <<>>
        /\ MetricsCalculated =>
              /\ IsZero(CrateMetricsOf.averageInstability)
              /\ IsZero(CrateMetricsOf.averageAbstractness)
              /\ IsZero(CrateMetricsOf.averageDistance)

\* C17, amended: for an empty crate the graph has exactly one node, the root module
\* crate, no edges and no cycles, and the crate metrics report averageInstability
\* = 0, averageAbstractness = 0 and averageDistance = 1.
C17_EmptyCrateDistanceOne ==
    EmptyCrate =>
        /\ Built => /\ IdsOf(graph) = {<<"crate">>}
                    /\ Len(graph.nodes) = 1
                    /\ graph.nodes[1].kind = "module"
                    /\ graph.edges = <<>>
        /\ CyclesDetected => cycles = <<>>
        /\ MetricsCalculated =>
              /\ IsZero(CrateMetricsOf.averageInstability)
              /\ IsZero(CrateMetricsOf.averageAbstractness)
              /\ IsOne(CrateMetricsOf.averageDistance)

\* the metrics of a crate whose entry file declares nothing were calculated
C17_Witness ==
    /\ EmptyCrate
    /\ MetricsCalculated
    /\ crates[1].rootModule.filePath = File(<<"src">>, "lib")
    /\ crates[1].rootModule.submodules = <<>>
    /\ CrateMetricsOf.totalModules = 1

(***************************************************************************)
(* The module tree and the file filter.                                    *)
(***************************************************************************)
Resolved == crates # <<>>

\* the modules of the resolved crate
TreeModules == ModulesBelow(crates[1].rootModule)

TreeModuleNames == {m.name : m \in TreeModules}

\* the crate with src/lib.rs, src/utils.rs, src/utils_tests.rs,
\* tests/integration.rs and the inline `#[cfg(test)] mod tests`
SrcLayout == mode = "tested" /\ "root" \notin frags

\* C18: for that crate, resolving with the no-tests preset gives a module tree with
\* none of the modules utils_tests, integration and tests; resolving with the
\* default preset gives a module tree with all three.
C18_TestFiltering ==
    (SrcLayout /\ Resolved) =>
        /\ filterConfig = createNoTestsFilterConfig =>
              TreeModuleNames \cap {"utils_tests", "integration", "tests"} = {}
        /\ filterConfig = createDefaultFilterConfig =>
              {"utils_tests", "integration", "tests"} \subseteq TreeModuleNames

\* C18, amended: for that crate, resolving with the no-tests preset gives a module
\* tree with none of the modules utils_tests, integration and tests; resolving with
\* the default preset gives a module tree with utils_tests and tests, and still
\* without integration: no `mod` declaration leads to a file of the tests directory.
C18_TestFilteringReachable ==
    (SrcLayout /\ Resolved) =>
        /\ filterConfig = createNoTestsFilterConfig =>
              TreeModuleNames \cap {"utils_tests", "integration", "tests"} = {}
        /\ filterConfig = createDefaultFilterConfig =>
              /\ {"utils_tests", "tests"} \subseteq TreeModuleNames
              /\ "integration" \notin TreeModuleNames

\* the crate, whose library declares the three file modules, was resolved with the
\* no-tests preset
C18_Witness ==
    /\ SrcLayout /\ "mod.integration" \in frags
    /\ filterConfig = createNoTestsFilterConfig
    /\ Resolved
    /\ TreeModuleNames = {"crate", "utils"}

\* the files of the analysed project
ProjectFiles == Projects(mode, frags)[1].files

TreeFiles == {m.filePath : m \in TreeModules}

\* the existing files a `mod name;` of the file parent can stand for
CandidatesOf(parent, name) ==
    LET dir == IF parent.base \in {"lib", "main", "mod"} THEN parent.dir
               ELSE Append(parent.dir, parent.base)
    IN  {File(dir, name), File(Append(dir, name), "mod")} \cap DOMAIN ProjectFiles

\* the candidate module files: the files the `mod` declarations of the files of the
\* tree stand for
CandidateFiles ==
    UNION {CandidatesOf(parent, name) :
             <<parent, name>> \in
                 UNION {{<<f, n>> : n \in Range(extractModDeclarations(ProjectFiles[f]))} :
                          f \in TreeFiles}}

MatchesSome(patterns, file) == \E i \in 1..Len(patterns) : file \in patterns[i]

\* what the filter configuration says of a file
FilteredOut(cfg, file) ==
    \/ cfg.excludeTestFiles /\ file.base \in {"utils_test", "utils_tests"}
    \/ cfg.excludeTestsDirectory /\ Len(file.dir) > 0 /\ Head(file.dir) = "tests"
    \/ MatchesSome(cfg.excludePatterns, file)
    \/ cfg.includePatterns # <<>> /\ ~MatchesSome(cfg.includePatterns, file)

\* C19: a candidate module file is left out of the module tree exactly when
\* test-file filtering is on and its basename ends in _test or _tests, or
\* tests-directory filtering is on and the file lies under the top-level tests
\* directory, or it matches an exclude pattern, or the include list is not empty
\* and it matches no include pattern.  So a file matching an include and an exclude
\* pattern is left out, and the default configuration leaves no file out.
C19_ExclusionRule ==
    (mode = "tested" /\ Resolved) =>
        /\ \A file \in CandidateFiles :
              file \notin TreeFiles <=> FilteredOut(filterConfig, file)
        /\ \A file \in CandidateFiles :
              (MatchesSome(filterConfig.includePatterns, file)
                 /\ MatchesSome(filterConfig.excludePatterns, file))
                => file \notin TreeFiles
        /\ filterConfig = createDefaultFilterConfig => CandidateFiles \subseteq TreeFiles

\* a crate was resolved in which one candidate file matches an include and an
\* exclude pattern, and another one lies under the tests directory and is left out
\* for that alone
C19_Witness ==
    /\ mode = "tested" /\ Resolved
    /\ \/ \E file \in CandidateFiles :
             /\ MatchesSome(filterConfig.includePatterns, file)
             /\ MatchesSome(filterConfig.excludePatterns, file)
             /\ ~filterConfig.excludeTestFiles
       \/ \E file \in CandidateFiles :
             /\ Len(file.dir) > 0 /\ Head(file.dir) = "tests"
             /\ filterConfig = [createDefaultFilterConfig
                                  EXCEPT !.excludeTestsDirectory = TRUE]

\* the four places of the entry point, in the order of the claim, for the project
\* made of the fragments frags: whether the place is named and its file exists
EntryPlaces ==
    LET manifest == "Cargo.toml" \in frags
    IN  <<[file |-> "src/mylib.rs",
           there |-> manifest /\ "lib.path" \in frags /\ "src/mylib.rs" \in frags],
          [file |-> "src/lib.rs", there |-> "src/lib.rs" \in frags],
          [file |-> "src/cli.rs",
           there |-> manifest /\ "bin.path" \in frags /\ "src/cli.rs" \in frags],
          [file |-> "src/main.rs", there |-> "src/main.rs" \in frags]>>

FirstPlace == CHOOSE i \in 1..4 :
                 EntryPlaces[i].there /\ \A j \in 1..(i - 1) : ~EntryPlaces[j].there

\* C20: resolve() takes as entry point the first that exists among the manifest's
\* library path override, src/lib.rs, the manifest's binary path override and
\* src/main.rs, in this order, and isLibrary is true exactly when it is one of the
\* first two.  When none exists resolve() fails and gives no crate.  A missing
\* manifest is no error: the crate is then named after its directory.
C20_EntryPoint ==
    (mode = "entry" /\ pc # "start") =>
        IF \E i \in 1..4 : EntryPlaces[i].there
        THEN /\ pc # "failed"
             /\ Len(crates) = 1
             /\ crates[1].rootModule.filePath = EntryFile(EntryPlaces[FirstPlace].file)
             /\ crates[1].isLibrary <=> FirstPlace <= 2
             /\ crates[1].name = IF {"Cargo.toml", "package"} \subseteq frags
                                 THEN "pkg" ELSE "entrydir"
        ELSE pc = "failed" /\ crates = <<>>

\* a crate without a manifest was resolved from src/main.rs, src/cli.rs being
\* there too
C20_Witness ==
    /\ mode = "entry"
    /\ frags = {"src/cli.rs", "src/main.rs"}
    /\ Len(crates) = 1
    /\ crates[1].name = "entrydir"
    /\ ~crates[1].isLibrary
    /\ crates[1].rootModule.filePath = EntryFile("src/main.rs")

\* the modules of the tree built from a file of their own
FileModules == {m \in TreeModules : m.visibility = "public"}

\* a module without any declaration
IsStub(m) ==
    /\ m.structs = <<>> /\ m.enums = <<>> /\ m.traits = <<>> /\ m.functions = <<>>
    /\ m.impls = <<>> /\ m.uses = <<>> /\ m.typeAliases = <<>> /\ m.submodules = <<>>

\* C21: when a `mod name;` declaration resolves to no file, or to a file other than
\* the entry point that cannot be read, resolve() does not abort: it returns a crate
\* definition whose module tree holds, in place of the missing module, an empty
\* module stub called name, with the path parent.path::name.
C21_ModuleStub ==
    (mode \in {"mods", "tested"} /\ pc # "start") =>
        /\ Resolved
        /\ \A parent \in FileModules :
              \A name \in Range(extractModDeclarations(ProjectFiles[parent.filePath])) :
                 (\A c \in CandidatesOf(parent.filePath, name) : ProjectFiles[c] = Unreadable)
                   => \E i \in 1..Len(parent.submodules) :
                         /\ parent.submodules[i].name = name
                         /\ parent.submodules[i].path = Append(parent.path, name)
                         /\ IsStub(parent.submodules[i])

\* the paths a use declaration imports, by the base-path rules, in module m
ImportedPaths(use, m) ==
    LET basePath == resolveBasePath(use.path, m.path) IN
    IF Len(use.items) > 0 THEN {Append(basePath, use.items[i].name) : i \in 1..Len(use.items)}
    ELSE {basePath}

\* C22: for every use declaration that is no glob import and every item it imports:
\* if the path given by the base-path rules (a leading `crate` is kept, a leading
\* `self` stands for the path of the current module, a leading `super` for the path
\* of its parent, any other leading segment is prefixed with `crate`) is the id of
\* a node, the graph has a use_import edge from the declaring module to that node.
\* So `use self::x::Foo;` and `use super::Foo;` give an edge when the target exists.
C22_UseEdges ==
    (mode \in {"single", "mods"} /\ Built) =>
        \A m \in ModulesBelow(crates[1].rootModule) :
           \A use \in {u \in Range(m.uses) : ~u.isGlob} :
              \A target \in ImportedPaths(use, m) :
                 target \in IdsOf(graph)
                    => <<m.path, target, "use_import">> \in Triples(graph)

\* the names that occur in a written type: the name of the type itself, also when
\* it stands behind `&`, and the names in its type parameters, at any depth
RECURSIVE NamesIn(_)
NamesIn(typeRef) ==
    {typeRef.name} \cup UNION {NamesIn(typeRef.typeParameters[i]) :
                                 i \in 1..Len(typeRef.typeParameters)}

\* the ids of the types declared in the crate under the name `name`
DeclaredTypes(name) ==
    {id \in IdsOf(graph) : /\ KindOfNode(graph, id) \in {"struct", "enum", "trait"}
                           /\ EndsWithPath(id, name)}

\* (owner id, written type, edge kind) for the fields of the structs and enums and
\* for the parameters and return types of the free functions of module m
WrittenTypes(m) ==
    UNION {{<<Append(m.path, d.name), d.fields[i], "field_type">> : i \in 1..Len(d.fields)} :
             d \in Range(m.structs)}
    \cup UNION {UNION {{<<Append(m.path, d.name), d.variants[v][i], "field_type">> :
                          i \in 1..Len(d.variants[v])} : v \in 1..Len(d.variants)} :
                  d \in Range(m.enums)}
    \cup UNION {{<<Append(m.path, f.name), f.params[i].typeRef, "parameter_type">> :
                   i \in {j \in 1..Len(f.params) : ~f.params[j].isSelf}} :
                  f \in Range(m.functions)}
    \cup UNION {{<<Append(m.path, f.name), f.returnType[i], "return_type">> :
                   i \in 1..Len(f.returnType)} :
                  f \in Range(m.functions)}

\* C23: for every field of a struct or an enum, every parameter of a function other
\* than self and every return type: a type T declared in the crate that occurs in
\* the written type (as the type itself, as a generic argument at any depth, behind
\* a reference, or as an element of a tuple or an array) and is not the owner gives
\* an edge of the kind field_type, parameter_type or return_type from the owner
\* to T.  (Stated for the names that one type of the crate bears.)
C23_TypeEdges ==
    (mode = "single" /\ Built) =>
        \A m \in ModulesBelow(crates[1].rootModule) :
           \A w \in WrittenTypes(m) :
              \A name \in NamesIn(w[2]) :
                 \A id \in DeclaredTypes(name) :
                    (DeclaredTypes(name) = {id} /\ id # w[1])
                       => <<w[1], id, w[3]>> \in Triples(graph)

\* the context in which pass 2 handles the declarations of module m
ContextOf(m) ==
    LET c == Context(graph, crates[1], "") IN
    [c EXCEPT !.currentModule = m.path, !.aliases = resolveUsesForModule(c.index, m)]

\* C24: for every impl block, pass 1 keys the nodes of the methods under the id
\* that pass 2 takes as the owner of the methods.  So, whenever pass 2 resolves the
\* self type to a node, every method of the block has a node selfTypeId::method whose
\* parent is the self type, and the edges of the method are in the graph, whether
\* the type is declared in a module visited before or after the module of the block.
C24_ImplMethodsKeyed ==
    (mode \in {"single", "mods"} /\ Built) =>
        \A m \in ModulesBelow(crates[1].rootModule) :
           \A impl \in Range(m.impls) :
              LET selfTypeId == resolveTypeRefToNodeId(ContextOf(m), impl.selfType) IN
              selfTypeId # <<>> =>
                 \A method \in Range(impl.methods) :
                    LET methodId == Append(selfTypeId[1], method.name) IN
                    /\ methodId \in IdsOf(graph)
                    /\ GetNode(graph.nodes, methodId).parentId = selfTypeId[1]
                    /\ \A call \in Range(processFunction(ContextOf(m), m, method,
                                                         selfTypeId[1])) :
                          <<call.fromId, call.toId, call.depType>> \in Triples(graph)

\* C25: in one run of resolve() every source file is parsed at most once, and
\* resolve() returns for every finite set of source files, also when a chain of
\* `mod` declarations leads back to a file whose resolution is in progress (src/lib.rs
\* with `mod main;` and src/main.rs with `mod lib;`); a later reference to a file
\* that was reached before gives the module built for the first reference.
C25_ParsedOnce ==
    (mode = "mods" /\ pc # "start" /\ "a.locked" \notin frags) =>
        /\ \A i, j \in 1..Len(parsed) : i # j => parsed[i] # parsed[j]
        /\ Resolved
        /\ \A m1, m2 \in FileModules : m1.filePath = m2.filePath => m1 = m2

\* a list of cycles as the claim compares them: the nodes of every cycle and, for
\* each of its edges, from, to, count and locations
CyclesView(cycleList) ==
    [k \in 1..Len(cycleList) |->
        [nodes |-> cycleList[k].nodes,
         edges |-> [i \in 1..Len(cycleList[k].edges) |->
                       LET e == cycleList[k].edges[i] IN
                       <<e.from, e.to, e.count, e.locations>>]]]

\* C26: detectModuleLevelCycles(g) returns the cycles of
\* detectCycles(aggregateToModuleLevel(g)): the same lists of nodes in the same
\* order and, for every cycle, the same edges with the same from, to, count and
\* locations.
C26_ModuleCyclesRefine ==
    pc = "done" => CyclesView(moduleCycles) = CyclesView(detectCycles(moduleGraph))

MetricsOfModule(id) == CHOOSE mm \in Range(metrics[1].moduleMetrics) : mm.base.id = id

\* the modules of the resolved crates whose id no other module has, with their id
ModulesById ==
    {<<pm[1] \o pm[2].path, pm[2]>> :
       pm \in {x \in ResolvedModules :
                 \A y \in ResolvedModules :
                    y[1] \o y[2].path = x[1] \o x[2].path => y = x}}

\* C27: for every module node of the graph given to calculateMetrics, of a single
\* crate (ids rooted at crate) and of a workspace (ids crateName::crate::...) alike,
\* the module metrics have totalTypes = the number of structs, enums and type
\* aliases of the module, totalTraits = the number of its traits, totalFunctions =
\* the number of its free functions, and abstractness = totalTraits / (totalTypes +
\* totalTraits), or 0 when the denominator is 0.
C27_ModuleCounts ==
    MetricsCalculated =>
        \A im \in ModulesById :
           LET mm == MetricsOfModule(im[1])
               types == Len(im[2].structs) + Len(im[2].enums) + Len(im[2].typeAliases)
               traits == Len(im[2].traits)
           IN  /\ mm.counts.totalTypes = types
               /\ mm.counts.totalTraits = traits
               /\ mm.counts.totalFunctions = Len(im[2].functions)
               /\ IF types + traits = 0 THEN IsZero(mm.base.abstractness)
                  ELSE mm.base.abstractness.num * (types + traits)
                         = traits * mm.base.abstractness.den

\* C28: in the metrics of every module found in the crate definition, publicItems +
\* privateItems = totalTypes + totalTraits + totalFunctions: every struct, enum, type
\* alias, trait and free function of the module is counted once, in publicItems
\* when its visibility is public and in privateItems otherwise.
C28_ItemsByVisibility ==
    (MetricsCalculated /\ mode # "workspace") =>
        \A im \in ModulesById :
           LET counts == MetricsOfModule(im[1]).counts
               decls == im[2].structs \o im[2].enums \o im[2].typeAliases
                          \o im[2].traits \o im[2].functions
               public == {i \in 1..Len(decls) : decls[i].visibility = "public"}
           IN  /\ counts.publicItems + counts.privateItems
                    = counts.totalTypes + counts.totalTraits + counts.totalFunctions
               /\ counts.publicItems = Cardinality(public)
               /\ counts.privateItems = Len(decls) - Cardinality(public)

\* the names of the declarations of the given node type among `items`, the
\* declarations a module lexically holds itself
NamesOfType(items, type) ==
    FlatMap(LAMBDA n : IF n.type = type THEN <<n.name>> ELSE <<>>, items)

NamesOf(decls) == FlatMap(LAMBDA d : <<d.name>>, decls)

\* C29: every declaration of a source file is listed in one module of the crate
\* definition, the innermost module (the module of the file, or an inline module)
\* that lexically holds it.  A declaration inside an inline `mod m { ... }` is not
\* listed in the module of the enclosing file as well, and gives one node; the
\* declarations of an inline cfg(test) module that the excludeCfgTest filter drops
\* are in no module of the tree and give no node.
C29_DeclaredOnce ==
    (mode \in {"single", "mods", "tested"} /\ Resolved) =>
        \A m \in FileModules :
           LET items == ProjectFiles[m.filePath] IN
           /\ NamesOf(m.structs) = NamesOfType(items, "struct_item")
           /\ NamesOf(m.enums) = NamesOfType(items, "enum_item")
           /\ NamesOf(m.functions) = NamesOfType(items, "function_item")
           /\ Built =>
                 \A id \in IdsOf(graph) :
                    (Len(id) = Len(m.path) + 1 /\ SubSeq(id, 1, Len(m.path)) = m.path
                       /\ KindOfNode(graph, id) \in {"struct", "enum"})
                      => Last(id) \in Range(NamesOfType(items, "struct_item")
                                             \o NamesOfType(items, "enum_item"))

\* the names of a written type that the resolution is asked for: the name of the
\* type and of its type parameters at any depth, but for the primitives and the
\* curated standard-library names
RECURSIVE NamesToResolve(_)
NamesToResolve(typeRef) ==
    (IF isPrimitive(typeRef) \/ isStdType(typeRef) THEN {} ELSE {typeRef.name})
    \cup UNION {NamesToResolve(typeRef.typeParameters[i]) :
                  i \in 1..Len(typeRef.typeParameters)}

\* the first path of the list that is the id of a node; <<>> when none is
FirstNode(paths) ==
    LET existing == SelectSeq(paths, LAMBDA q : q \in IdsOf(graph)) IN
    IF existing = <<>> THEN <<>> ELSE <<existing[1]>>

\* (a): the target bound to the name in the alias table of module m
AliasTarget(m, name) ==
    LET aliases == resolveUsesForModule(buildSymbolIndex(crates[1].rootModule), m) IN
    IF Len(name) = 1 /\ AliasHas(aliases, name[1]) THEN <<AliasGet(aliases, name[1])>>
    ELSE <<>>

\* the node the name resolves to in module m by the order (a), (b), (c), (d)
ResolvesTo(m, name) ==
    FirstNode(AliasTarget(m, name) \o <<m.path \o name, <<"crate">> \o name>>
                \o SuffixMatch(graph.nodes, name))

\* the node the name resolves to in module m by the order (a); the candidate the
\* symbol index knows as a type or trait; (b), (c), (d)
ResolvesToIndexed(m, name) ==
    LET index == buildSymbolIndex(crates[1].rootModule)
        known == SelectSeq(<<m.path \o name, <<"crate">> \o name>>
                             \o (IF Len(name) > 1 /\ name[1] = "crate" THEN <<name>>
                                 ELSE <<>>),
                           LAMBDA q : Contains(index.types, q) \/ Contains(index.traits, q))
        indexed == IF AliasTarget(m, name) # <<>> THEN AliasTarget(m, name)
                   ELSE IF known # <<>> THEN <<known[1]>> ELSE <<>>
    IN  FirstNode(indexed \o <<m.path \o name, <<"crate">> \o name>>
                    \o SuffixMatch(graph.nodes, name))

\* the targets of the edges of the given kind that leave the owner
TargetsOf(owner, kind) == {e.to : e \in {x \in EdgesOf(graph) : x.from = owner /\ x.depType = kind}}

\* the written types of module m with the given owner and edge kind
WrittenBy(m, owner, kind) == {w[2] : w \in {x \in WrittenTypes(m) : x[1] = owner /\ x[3] = kind}}

\* C30: a type reference that is neither a primitive nor a curated
\* standard-library name resolves to the first of these that is the id of a node:
\* (a) the target its name has in the alias table of the current module, (b)
\* currentModule::name, (c) crate::name, (d) the first node, in the insertion order
\* of the node map, whose id ends in ::name.  It resolves to nothing, and gives no
\* edge, when none of the four is a node; an alias wins over a declaration of the
\* same name in the current module or at the crate root.
C30_ResolutionOrder ==
    (mode \in {"single", "mods"} /\ Built) =>
        \A m \in FileModules :
           \A w \in WrittenTypes(m) :
              TargetsOf(w[1], w[3]) =
                 UNION {{id \in Range(ResolvesTo(m, name)) : id # w[1]} :
                          name \in UNION {NamesToResolve(t) : t \in WrittenBy(m, w[1], w[3])}}

\* C30, amended: when the name has no alias, the first of currentModule::name,
\* crate::name and (for a name written with a leading crate::) the name itself that
\* the symbol index lists as a type or trait comes before (b), (c) and (d).  The
\* reference resolves to the first of (a), that path, (b), (c), (d) that is the id
\* of a node, and to nothing, without an edge, when none is; an alias whose target
\* is a node wins over a declaration of the same name in the current module or at
\* the crate root.
C30_ResolutionOrderIndexed ==
    (mode \in {"single", "mods"} /\ Built) =>
        \A m \in FileModules :
           \A w \in WrittenTypes(m) :
              TargetsOf(w[1], w[3]) =
                 UNION {{id \in Range(ResolvesToIndexed(m, name)) : id # w[1]} :
                          name \in UNION {NamesToResolve(t) : t \in WrittenBy(m, w[1], w[3])}}

\* the graph was built for a crate in which module b imports the struct T of module
\* a, declares a function T itself and refers to T in a field of its struct U, the
\* crate root declaring a trait T: the field resolves to the imported struct
C30_Witness ==
    /\ mode = "mods" /\ Built
    /\ {"a", "b", "a.T", "b.use", "b.U", "b.U.t", "b.fn", "T"} \subseteq frags
    /\ "b.U.s" \notin frags
    /\ {<<"crate", "T">>, <<"crate", "b", "T">>, <<"crate", "a", "T">>} \subseteq IdsOf(graph)
    /\ TargetsOf(<<"crate", "b", "U">>, "field_type") = {<<"crate", "a", "T">>}
=========================================================================
